---------------------------- MODULE Spec2Model ----------------------------
(***************************************************************************)
(* A model of gantry's build pipeline: the Pipeline/Stage/Target           *)
(* framework (targets/_common.py), the Compose and Image targets           *)
(* (targets/compose.py, targets/image.py), the build manifest              *)
(* (build_manifest.py) and the `build` command that drives them            *)
(* (cli/_main.py, cli/build.py).                                           *)
(*                                                                         *)
(* Each function is modelled from its own body.  Where a caller passes an  *)
(* argument the callee has no parameter for (BuildManifest is given a      *)
(* manifest name by compose.py:184 but build_manifest.py:99 stores only    *)
(* entries and source), the callee's body decides what is kept.            *)
(***************************************************************************)
EXTENDS Integers, Sequences, FiniteSets, TLC

VARIABLES
    \* ---- Pipeline (targets/_common.py:18-67) ----
    pl_stages,   \* Pipeline._stages: the stage objects, in run order
    pl_added,    \* history: stage ids in the order they were handed to the pipeline
    pl_pc,       \* "setup" | "running" | "done" | "raised"
    pl_idx,      \* position of the for-loop of Pipeline.run
    pl_ran,      \* history: ids of the stages whose run() was entered
    pl_effects,  \* ids of the stages whose filesystem effect is in place
    pl_error     \* id of the stage whose error reached the caller, or None

pl_vars == <<pl_stages, pl_added, pl_pc, pl_idx, pl_ran, pl_effects, pl_error>>

VARIABLES
    \* ---- Target.__init__ (targets/_common.py:73-104) ----
    tg_options,  \* the `options` argument: [isNone, tokens]
    tg_pc,       \* "init" | "loop" | "ok" | "raised"
    tg_i,        \* position of `for opt in options`
    tg_parsed,   \* self._parsed_options
    tg_error     \* the exception that left the constructor, or None

tg_vars == <<tg_options, tg_pc, tg_i, tg_parsed, tg_error>>

VARIABLES
    \* ---- BuildManifest (build_manifest.py) ----
    mf_req,      \* what the caller asks for: a manifest name and raw entries
    mf_pc,       \* "new" | "built" | "saved" | "found" | "loaded" | "read" | "raised"
    mf_manifest, \* the BuildManifest object being built and saved
    mf_file,     \* the JSON document written by save(), or NoFile
    mf_loaded,   \* the BuildManifest object returned by load()
    mf_error,    \* the exception raised, or None
    mf_errors,   \* the errors list of a raised BuildManifestValidationError
    mf_warnings  \* the warnings a load has recorded

mf_vars == <<mf_req, mf_pc, mf_manifest, mf_file, mf_loaded, mf_error, mf_errors,
            mf_warnings>>

VARIABLES
    \* ---- the `build` command (cli/_main.py, cli/build.py) ----
    fs,           \* the filesystem
    bd_inv,       \* the arguments of cmd, and the version it generated
    bd_pc,        \* "idle" | "main" | "cmd" | "group" | "stage" | "done" | "failed"
    bd_gi,        \* position of `for path in services_paths`
    bd_stage,     \* position of Pipeline.run in the target's stage list
    bd_error,     \* the exception that ended the invocation
    bd_docker,    \* services handed to the Docker build API in this invocation
    bd_ninv,      \* invocations started so far
    bd_edits,     \* source files deleted so far
    \* history, kept for stating properties:
    bd_attempted, \* groups whose build was started in this invocation
    bd_built,     \* groups whose pipeline ran to the end in this invocation
    bd_fs0,       \* the filesystem when the invocation started
    bd_fsG,       \* the filesystem when the current group's build started
    bd_prev,      \* the groups of the previous invocation, if it completed
    bd_dirty      \* a source file was deleted since the last invocation started

bd_vars == <<fs, bd_inv, bd_pc, bd_gi, bd_stage, bd_error, bd_docker, bd_ninv,
             bd_edits, bd_attempted, bd_built, bd_fs0, bd_fsG, bd_prev, bd_dirty>>

VARIABLES
    \* ---- ServiceDefinition and its Compose conversion (services.py,
    \*      routers/traefik/_provider.py, targets/compose.py) ----
    sv_def,      \* ServiceDefinition._definition
    sv_folder,   \* ServiceDefinition._folder: <<>> or <<folder name>>
    sv_args,     \* RoutingProvider._args
    sv_pc,       \* "new" | "loaded" | "registered" | "converted" | "raised"
    sv_error,    \* the exception raised, or None
    sv_call,     \* history: the last set_metadata call and the metadata before it
    sv_ncalls,   \* set_metadata calls made by the caller so far
    sv_compose   \* the ComposeService dict of the conversion

sv_vars == <<sv_def, sv_folder, sv_args, sv_pc, sv_error, sv_call, sv_ncalls, sv_compose>>

VARIABLES
    \* ---- TraefikConfig (routers/traefik/_config.py) ----
    tc_cfg,      \* the object: _enable_tls, _port, _routes, _service
    tc_pc,       \* "off" | "config" | "labels" | "raised"
    tc_added,    \* history: the routes add_route accepted, in call order
    tc_name,     \* the argument of to_labels
    tc_labels    \* the dict to_labels returned

tc_vars == <<tc_cfg, tc_pc, tc_added, tc_name, tc_labels>>

VARIABLES
    \* ---- ServiceGroupDefinition as a collection (services.py) ----
    gp_group,    \* the group definition loaded: its folder and services list
    gp_pc,       \* "off" | "new" | "ready" | "iterating"
    gp_pass,     \* the number of iterations started
    gp_i,        \* the position of the running generator in the services list
    gp_seen,     \* history: per iteration, the services it has yielded
    gp_len,      \* the result of len(group), once asked
    gp_has       \* the results of `name in group`, per name asked

gp_vars == <<gp_group, gp_pc, gp_pass, gp_i, gp_seen, gp_len, gp_has>>

VARIABLES
    \* ---- the Image target building one group (targets/image.py) ----
    im_pc,       \* "off" | "new" | "target" | "pipeline" | "building" |
                 \* "response" | "done" | "raised"
    im_inv,      \* the arguments the target is built from
    im_fs,       \* the filesystem
    im_stage,    \* position of Pipeline.run in the target's stage list
    im_svc,      \* position of `for service in status_reporter.services`
    im_npay,     \* payloads taken from the running build response
    im_calls,    \* history: the services handed to the Docker build API
    im_items,    \* history: the payloads taken from the responses
    im_log,      \* history: the log_output / log_error calls of the reporter
    im_error     \* the exception raised, or None

im_vars == <<im_pc, im_inv, im_fs, im_stage, im_svc, im_npay, im_calls, im_items,
             im_log, im_error>>

VARIABLES
    \* ---- ForgeClient (forge/client.py) ----
    fg_pc,       \* "off" | "new" | "parsed" | "folder" | "auth" | "headers" |
                 \* "ready" | "raised"
    fg_url,      \* the `url` argument
    fg_fs,       \* the application folder: what exists in it
    fg_fs0,      \* history: the application folder before the construction
    fg_auth,     \* self._auth_info
    fg_headers,  \* self._headers
    fg_certs,    \* self._ca_certs
    fg_nset,     \* set_basic_auth / set_token_auth calls made so far
    fg_error     \* the exception raised, or None

fg_vars == <<fg_pc, fg_url, fg_fs, fg_fs0, fg_auth, fg_headers, fg_certs, fg_nset,
             fg_error>>

VARIABLES
    \* ---- BuildComposeFile.run (targets/compose.py) ----
    cf_pc,       \* "off" | "new" | "loop" | "emitted" | "raised"
    cf_group,    \* the service group: router provider and args, members
    cf_args,     \* the args the router was constructed with
    cf_i,        \* position of `for service in services`
    cf_calls,    \* history: the calls made on the router, in order
    cf_mapping,  \* service_mapping: name and description, in insertion order
    cf_volumes,  \* volumes
    cf_file,     \* the services of the compose file written, once written
    cf_error     \* the exception raised, or None

cf_vars == <<cf_pc, cf_group, cf_args, cf_i, cf_calls, cf_mapping, cf_volumes,
             cf_file, cf_error>>

VARIABLES
    \* ---- GenerateOrUpdateManifestFile.run in concurrent invocations
    \*      (targets/compose.py, build_manifest.py) ----
    rc_pc,          \* per invocation: "off" | "idle" | "loaded" | "appended" |
                    \* "writing" | "saved" | "raised"
    rc_local,       \* per invocation: the BuildManifest object it holds
    rc_file,        \* manifest.json of the shared build folder
    rc_base,        \* history: the entries manifest.json had at the start
    rc_interleaved, \* history: an invocation loaded while another was under way
    rc_stale        \* history: an invocation saved while another held a manifest
                    \* loaded before that save

rc_vars == <<rc_pc, rc_local, rc_file, rc_base, rc_interleaved, rc_stale>>

VARIABLES
    \* ---- MultiActivityDisplay and ProcessDisplay (console.py) ----
    ds_pc,       \* "off" | "new" | "between" | "yielded" | "done" | "abandoned"
    ds_n,        \* len(self._stages)
    ds_i,        \* position of `for stage in self._stages`
    ds_displays, \* the ProcessDisplay objects created, in order
    ds_display,  \* self._display: 0 for None, else the position in ds_displays
    ds_surface,  \* self._surface: started or not
    ds_total,    \* the advance of the total progress
    ds_logged,   \* the messages sent to the logger
    ds_hist      \* history, per ProcessDisplay: the print calls it received
                 \* and how many of them while it was stopped

ds_vars == <<ds_pc, ds_n, ds_i, ds_displays, ds_display, ds_surface, ds_total,
             ds_logged, ds_hist>>

\* The variables of the parts added after the build, service and router
\* parts.
ext_vars == <<gp_vars, im_vars, fg_vars, cf_vars, rc_vars, ds_vars>>

vars == <<pl_vars, tg_vars, mf_vars, bd_vars, sv_vars, tc_vars, ext_vars>>

None == "None"

\* ------------------------------------------------------------------------
\* Generic helpers
\* ------------------------------------------------------------------------
SeqsUpTo(S, n) == UNION {[1..k -> S] : k \in 0..n}

IsPrefix(s, t) == Len(s) <= Len(t) /\ SubSeq(t, 1, Len(s)) = s

Last(s) == s[Len(s)]

\* ------------------------------------------------------------------------
\* Pipeline
\* ------------------------------------------------------------------------
MaxCtorStages == 2
MaxStages == 3

StageIds == {"A", "B", "C"}

\* A Stage is a protocol: any object with run(service_group).  What a stage
\* does when run is the environment's choice: it completes (its filesystem
\* effect is in place) or it raises.
StageObjs == [id : StageIds, raises : BOOLEAN]

StageIdsOf(stages) == [i \in 1..Len(stages) |-> stages[i].id]

\* Pipeline.__init__: self._stages = []; self._stages.extend(stages)
PipelineInitStages(stages) == <<>> \o stages

AddStageFront(stages, stage) == <<stage>> \o stages

\* Pipeline.add_stage: self._stages.append(stage)
AddStage(stages, stage) == Append(stages, stage)

\* ------------------------------------------------------------------------
\* Paths and JSON documents
\* ------------------------------------------------------------------------
\* A Path is the sequence of its components.  A path string is the sequence
\* of its components and "/" separators, as in <<".", "/", "a", "/", "b">>.
EmptyDict == [k \in {} |-> TRUE]

RECURSIVE JoinPosix(_)
JoinPosix(parts) ==
    IF Len(parts) = 0 THEN <<>>
    ELSE IF Len(parts) = 1 THEN <<parts[1]>>
    ELSE <<parts[1], "/">> \o JoinPosix(Tail(parts))

\* Path.as_posix(): the components joined by "/"; the root component of an
\* absolute path is the leading "/"; the empty path is ".".
AsPosix(path) ==
    IF Len(path) = 0 THEN <<".">>
    ELSE IF path[1] = "/" THEN <<"/">> \o JoinPosix(Tail(path))
    ELSE JoinPosix(path)

RECURSIVE SplitPath(_)
SplitPath(str) ==
    IF Len(str) = 0 THEN <<>>
    ELSE IF Head(str) \in {"/", "."} THEN SplitPath(Tail(str))
    ELSE <<Head(str)>> \o SplitPath(Tail(str))

\* Path(string): split at the separators; "." components and the empty
\* components of doubled separators are dropped, a leading separator is
\* kept as the root component.
ToPath(str) ==
    IF Len(str) > 0 /\ Head(str) = "/" THEN <<"/">> \o SplitPath(Tail(str))
    ELSE SplitPath(str)

\* Path.name: the final component ("" for the empty path).
PathName(path) == IF Len(path) = 0 THEN "" ELSE path[Len(path)]

\* Path.parent
PathParent(path) == IF Len(path) = 0 THEN <<>> ELSE SubSeq(path, 1, Len(path) - 1)

\* ------------------------------------------------------------------------
\* The filesystem: a function from the paths that exist to what is there
\* ------------------------------------------------------------------------
Dir == [kind |-> "dir"]
File(data) == [kind |-> "file", data |-> data]

Ok(f) == [error |-> None, fs |-> f]
Err(kind, f) == [error |-> kind, fs |-> f]

\* Path.exists(); the working directory <<>> always exists.
Exists(f, path) == path = <<>> \/ path \in DOMAIN f

\* Path.is_dir()
IsDir(f, path) == path = <<>> \/ (path \in DOMAIN f /\ f[path].kind = "dir")

IsUnder(path, root) ==
    Len(path) > Len(root) /\ SubSeq(path, 1, Len(root)) = root

Prefixes(path) == {SubSeq(path, 1, k) : k \in 1..Len(path)}

\* Path.iterdir()
IterDir(f, path) == {q \in DOMAIN f : Len(q) = Len(path) + 1 /\ IsUnder(q, path)}

\* Path.mkdir(parents=..., exist_ok=...)
MkDir(f, path, parents, exist_ok) ==
    IF Exists(f, path)
       THEN IF exist_ok /\ IsDir(f, path) THEN Ok(f) ELSE Err("FileExistsError", f)
    ELSE IF IsDir(f, PathParent(path))
       THEN Ok((path :> Dir) @@ f)
    ELSE IF ~parents THEN Err("FileNotFoundError", f)
    ELSE IF \E q \in Prefixes(path) : Exists(f, q) /\ ~IsDir(f, q)
       THEN Err("NotADirectoryError", f)
    ELSE Ok([q \in {r \in Prefixes(path) : ~Exists(f, r)} |-> Dir] @@ f)

\* path.open("wt") followed by a write: creates or replaces the file.
WriteFile(f, path, data) ==
    IF ~IsDir(f, PathParent(path)) THEN Err("FileNotFoundError", f)
    ELSE IF IsDir(f, path) THEN Err("IsADirectoryError", f)
    ELSE Ok((path :> File(data)) @@ f)

\* shutil.copy2(src, dst)
CopyFile(f, src, dst) == WriteFile(f, dst, f[src].data)

\* shutil.copytree(src, dst, dirs_exist_ok=...): dst must not exist unless
\* dirs_exist_ok; what is under src is copied over what is under dst.
CopyTree(f, src, dst, dirs_exist_ok) ==
    IF Exists(f, dst) /\ ~(dirs_exist_ok /\ IsDir(f, dst)) THEN Err("FileExistsError", f)
    ELSE LET made == MkDir(f, dst, TRUE, dirs_exist_ok)
             below == {q \in DOMAIN f : IsUnder(q, src)}
             Target(q) == dst \o SubSeq(q, Len(src) + 1, Len(q))
         IN  IF made.error # None THEN made
             ELSE Ok([t \in {Target(q) : q \in below} |->
                        f[CHOOSE q \in below : Target(q) = t]] @@ made.fs)

\* shutil.rmtree(path)
RmTree(f, path) == [q \in {r \in DOMAIN f : r # path /\ ~IsUnder(r, path)} |-> f[q]]

\* The part of the filesystem at and below `root`.
Subtree(f, root) == [q \in {r \in DOMAIN f : r = root \/ IsUnder(r, root)} |-> f[q]]

\* ------------------------------------------------------------------------
\* BuildManifest and its entries
\* ------------------------------------------------------------------------
MANIFEST_TYPE == "gantry-manifest"
MANIFEST_FILE == "manifest.json"

NoFile == [kind |-> "absent"]
NoManifest == [entries |-> <<>>, source |-> <<"?">>, absent |-> TRUE]

\* A DockerComposeEntry whose __post_init__ accepts any file name.
DockerComposeEntryNoCheck(compose_file, is_deployable) ==
    [error |-> None,
     entry |-> [type |-> "docker-compose",
                compose_file |-> compose_file,
                is_deployable |-> is_deployable]]

\* DockerComposeEntry(compose_file, is_deployable) with its __post_init__.
DockerComposeEntry(compose_file, is_deployable) ==
    IF PathName(compose_file) # "docker-compose.yml"
       THEN [error |-> "BuildManifestBadFilePathError"]
       ELSE [error |-> None,
             entry |-> [type |-> "docker-compose",
                        compose_file |-> compose_file,
                        is_deployable |-> is_deployable]]

\* ImageEntry(image, source) with its __post_init__.
ImageEntry(image, source) ==
    IF PathName(source) # "Dockerfile"
       THEN [error |-> "BuildManifestBadFilePathError"]
       ELSE [error |-> None,
             entry |-> [type |-> "image", image |-> image, source |-> source]]

\* Entry.to_dict of the two entry classes.
EntryToDict(entry) ==
    IF entry.type = "docker-compose"
       THEN ("type" :> "docker-compose")
               @@ ("compose-file" :> AsPosix(entry.compose_file))
               @@ (IF ~entry.is_deployable THEN ("is-deployable" :> FALSE) ELSE EmptyDict)
       ELSE ("type" :> "image")
               @@ ("image" :> entry.image)
               @@ ("source" :> AsPosix(entry.source))

\* BuildManifest.__init__(*, entries=None, source=None): a manifest holds
\* its entries and the path it was saved to or loaded from, nothing else.
BuildManifest(entries, source) == [entries |-> entries, source |-> source]

AppendEntryReplace(manifest, entry) ==
    [manifest EXCEPT !.entries = <<entry>>]

\* BuildManifest.append_entry
AppendEntry(manifest, entry) ==
    [manifest EXCEPT !.entries = Append(manifest.entries, entry)]

\* The document BuildManifest.save dumps.
ManifestJson(manifest) ==
    ("type" :> MANIFEST_TYPE)
        @@ ("contents" :> [i \in 1..Len(manifest.entries) |-> EntryToDict(manifest.entries[i])])

\* What Draft7Validator(schema).iter_errors finds in a manifest document:
\* one violation at the root when `contents` is missing, one at
\* $.contents[i] for every item that has no `type` or lacks a key its type
\* requires. A violation's path is its absolute path, <<>> for "$" and
\* <<"contents", i>> for "$.contents[i]" (indices from 0).
SchemaViolations(json) ==
    IF "contents" \notin DOMAIN json
       THEN {[path |-> <<>>, message |-> "'contents' is a required property"]}
       ELSE {[path |-> <<"contents", i - 1>>,
              message |-> "is not valid under any of the given schemas"] :
                i \in {j \in 1..Len(json["contents"]) :
                        LET item == json["contents"][j] IN
                        \/ "type" \notin DOMAIN item
                        \/ /\ item["type"] = "docker-compose"
                           /\ "compose-file" \notin DOMAIN item
                        \/ /\ item["type"] = "image"
                           /\ ~({"image", "source"} \subseteq DOMAIN item)}}

\* The order of the json_path strings of two violation paths: "$" sorts
\* before "$.contents[i]", and "$.contents[i]" before "$.contents[j]" for
\* single-digit i < j.
JsonPathLess(p, q) ==
    \/ Len(p) < Len(q)
    \/ Len(p) = 2 /\ Len(q) = 2 /\ p[2] < q[2]

\* Validation that stops at the first violation found.
ValidateObjectFirst(violations) ==
    IF violations = {} THEN <<>>
    ELSE << CHOOSE v \in violations :
                \A w \in violations : ~JsonPathLess(w.path, v.path) >>

\* validate_object: sorted(validator.iter_errors(instance),
\*                         key=lambda e: e.json_path)
ValidateObject(violations) ==
    IF violations = {} THEN <<>>
    ELSE CHOOSE errors \in [1..Cardinality(violations) -> violations] :
            /\ \A i, j \in DOMAIN errors : i # j => errors[i] # errors[j]
            /\ \A i, j \in DOMAIN errors :
                  i < j => ~JsonPathLess(errors[j].path, errors[i].path)

\* errors = validate_object(parsed, Schema.BUILD_MANIFEST)
ManifestSchemaErrors(json) == ValidateObject(SchemaViolations(json))

\* BuildManifestValidationError(errors).errors: one ErrorInfo(path, message)
\* for each error handed to the exception, in the order handed over.
BuildManifestValidationError(errors) ==
    [i \in 1..Len(errors) |-> <<errors[i].path, errors[i].message>>]

\* dict.get(key, default)
DictGet(d, k, default) == IF k \in DOMAIN d THEN d[k] ELSE default

\* The match statement of BuildManifest.load for one item of `contents`:
\* the entry it constructs, an error of that construction, or nothing for
\* a type it does not know (the exception object is made but not raised).
LoadItem(item) ==
    IF item["type"] = "docker-compose"
       THEN DockerComposeEntry(ToPath(item["compose-file"]),
                               DictGet(item, "is-deployable", TRUE))
    ELSE IF item["type"] = "image"
       THEN ImageEntry(item["image"], ToPath(item["source"]))
    ELSE [error |-> None]

RECURSIVE LoadItems(_)
LoadItems(items) ==
    IF Len(items) = 0 THEN [error |-> None, entries |-> <<>>]
    ELSE LET first == LoadItem(Head(items))
             rest == LoadItems(Tail(items))
         IN  IF first.error # None THEN [error |-> first.error, entries |-> <<>>]
             ELSE IF rest.error # None THEN rest
             ELSE [error |-> None,
                   entries |-> (IF "entry" \in DOMAIN first
                                   THEN <<first.entry>> ELSE <<>>) \o rest.entries]

\* BuildManifest.load on the document found at `path`.
LoadManifest(json, path) ==
    IF Len(ManifestSchemaErrors(json)) # 0
       THEN [error |-> "BuildManifestValidationError",
             errors |-> BuildManifestValidationError(ManifestSchemaErrors(json))]
       ELSE LET r == LoadItems(json["contents"]) IN
            IF r.error # None THEN [error |-> r.error]
            ELSE [error |-> None, manifest |-> BuildManifest(r.entries, path)]

ManifestIdle ==
    /\ mf_req = [name |-> None, entries |-> <<>>]
    /\ mf_pc = "idle"
    /\ mf_manifest = NoManifest
    /\ mf_file = NoFile
    /\ mf_loaded = NoManifest
    /\ mf_error = None
    /\ mf_errors = <<>>
    /\ mf_warnings = <<>>

NoCall == [made |-> FALSE]

ServiceIdle ==
    /\ sv_def = EmptyDict
    /\ sv_folder = <<>>
    /\ sv_args = EmptyDict
    /\ sv_pc = "off"
    /\ sv_error = None
    /\ sv_call = NoCall
    /\ sv_ncalls = 0
    /\ sv_compose = EmptyDict

TraefikConfigIdle ==
    /\ tc_cfg = EmptyDict
    /\ tc_pc = "off"
    /\ tc_added = <<>>
    /\ tc_name = <<>>
    /\ tc_labels = EmptyDict

GroupIdle ==
    /\ gp_group = EmptyDict
    /\ gp_pc = "off"
    /\ gp_pass = 0
    /\ gp_i = 0
    /\ gp_seen = <<>>
    /\ gp_len = <<>>
    /\ gp_has = EmptyDict

ImageBuildIdle ==
    /\ im_pc = "off"
    /\ im_inv = [target |-> "none", paths |-> <<>>, options |-> <<>>, tag |-> <<>>,
                 build_number |-> <<>>, version |-> <<>>]
    /\ im_fs = EmptyDict
    /\ im_stage = 0
    /\ im_svc = 0
    /\ im_npay = 0
    /\ im_calls = <<>>
    /\ im_items = <<>>
    /\ im_log = <<>>
    /\ im_error = None

\* An application folder nothing is known about, for the parts that have
\* no forge client.
NoAppFolder == [app |-> FALSE, provider |-> FALSE, certs |-> FALSE,
                auth |-> [state |-> "absent", data |-> <<>>]]

ForgeIdle ==
    /\ fg_pc = "off"
    /\ fg_url = ""
    /\ fg_fs = NoAppFolder
    /\ fg_fs0 = NoAppFolder
    /\ fg_auth = <<>>
    /\ fg_headers = <<>>
    /\ fg_certs = ""
    /\ fg_nset = 0
    /\ fg_error = None

ComposeFileIdle ==
    /\ cf_pc = "off"
    /\ cf_group = [provider |-> "none", args |-> EmptyDict, members |-> <<>>]
    /\ cf_args = EmptyDict
    /\ cf_i = 0
    /\ cf_calls = <<>>
    /\ cf_mapping = <<>>
    /\ cf_volumes = {}
    /\ cf_file = <<>>
    /\ cf_error = None

RaceIdle ==
    /\ rc_pc = <<>>
    /\ rc_local = <<>>
    /\ rc_file = [state |-> "absent", data |-> EmptyDict]
    /\ rc_base = 0
    /\ rc_interleaved = FALSE
    /\ rc_stale = FALSE

DisplayIdle ==
    /\ ds_pc = "off"
    /\ ds_n = 0
    /\ ds_i = 0
    /\ ds_displays = <<>>
    /\ ds_display = 0
    /\ ds_surface = FALSE
    /\ ds_total = 0
    /\ ds_logged = 0
    /\ ds_hist = <<>>

\* No part added later has been started.
ExtIdle ==
    /\ GroupIdle
    /\ ImageBuildIdle
    /\ ForgeIdle
    /\ ComposeFileIdle
    /\ RaceIdle
    /\ DisplayIdle


NoInv == [target |-> "none", paths |-> <<>>, options |-> <<>>, tag |-> <<>>,
          build_number |-> <<>>, version |-> <<>>]
NoError == [kind |-> None]
NoPrev == [ok |-> FALSE, paths |-> <<>>]

BuildIdle ==
    /\ fs = EmptyDict
    /\ bd_inv = NoInv
    /\ bd_pc = "off"
    /\ bd_gi = 0
    /\ bd_stage = 0
    /\ bd_error = NoError
    /\ bd_docker = <<>>
    /\ bd_ninv = 0
    /\ bd_edits = 0
    /\ bd_attempted = <<>>
    /\ bd_built = <<>>
    /\ bd_fs0 = EmptyDict
    /\ bd_fsG = EmptyDict
    /\ bd_prev = NoPrev
    /\ bd_dirty = FALSE

TargetIdle ==
    /\ tg_options = [isNone |-> TRUE, tokens |-> <<>>]
    /\ tg_pc = "idle"
    /\ tg_i = 0
    /\ tg_parsed = <<>>
    /\ tg_error = None

PipelineIdle ==
    /\ pl_stages = <<>> /\ pl_added = <<>> /\ pl_pc = "idle" /\ pl_idx = 0
    /\ pl_ran = <<>> /\ pl_effects = <<>> /\ pl_error = None

\* None of the pipeline, target, manifest, build, service and router
\* parts has been started.
CoreIdle ==
    /\ PipelineIdle
    /\ TargetIdle
    /\ ManifestIdle
    /\ BuildIdle
    /\ ServiceIdle
    /\ TraefikConfigIdle

PipelineInit ==
    /\ TargetIdle
    /\ ManifestIdle
    /\ BuildIdle
    /\ ServiceIdle
    /\ TraefikConfigIdle
    /\ ExtIdle
    /\ \E ctor \in SeqsUpTo(StageObjs, MaxCtorStages) :
          /\ pl_stages = PipelineInitStages(ctor)
          /\ pl_added = StageIdsOf(ctor)
    /\ pl_pc = "setup"
    /\ pl_idx = 1
    /\ pl_ran = <<>>
    /\ pl_effects = <<>>
    /\ pl_error = None

PipelineAddStage ==
    /\ pl_pc = "setup"
    /\ Len(pl_stages) < MaxStages
    /\ \E stage \in StageObjs :
          /\ pl_stages' = AddStage(pl_stages, stage)
          /\ pl_added' = Append(pl_added, stage.id)
    /\ UNCHANGED <<pl_pc, pl_idx, pl_ran, pl_effects, pl_error>>

\* Pipeline.run is entered: the for-loop starts at the first stage.
PipelineRun ==
    /\ pl_pc = "setup"
    /\ pl_pc' = "running"
    /\ pl_idx' = 1
    /\ UNCHANGED <<pl_stages, pl_added, pl_ran, pl_effects, pl_error>>

\* One iteration of `for stage in self._stages: stage.run(service_group)`.
\* An exception of stage.run is not caught: it leaves the loop and reaches
\* the caller of Pipeline.run.
PipelineRunStage ==
    /\ pl_pc = "running"
    /\ pl_idx <= Len(pl_stages)
    /\ LET stage == pl_stages[pl_idx] IN
          /\ pl_ran' = Append(pl_ran, stage.id)
          /\ IF stage.raises
                THEN /\ pl_pc' = "raised"
                     /\ pl_error' = stage.id
                     /\ UNCHANGED <<pl_idx, pl_effects>>
                ELSE /\ pl_effects' = Append(pl_effects, stage.id)
                     /\ pl_idx' = pl_idx + 1
                     /\ UNCHANGED <<pl_pc, pl_error>>
    /\ UNCHANGED <<pl_stages, pl_added>>

\* The for-loop is exhausted: Pipeline.run returns.
PipelineReturn ==
    /\ pl_pc = "running"
    /\ pl_idx > Len(pl_stages)
    /\ pl_pc' = "done"
    /\ UNCHANGED <<pl_stages, pl_added, pl_idx, pl_ran, pl_effects, pl_error>>

PipelineNext ==
    /\ \/ PipelineAddStage
       \/ PipelineRun
       \/ PipelineRunStage
       \/ PipelineReturn
    /\ UNCHANGED <<tg_vars, mf_vars, bd_vars, sv_vars, tc_vars, ext_vars>>

SpecPipeline == PipelineInit /\ [][PipelineNext]_vars

\* C1: Pipeline.run executes the stages strictly in the order they were
\* added (constructor list first, then add_stage order), one at a time; if
\* stage k raises, no stage after k is run, the error reaches the caller and
\* the effects of stages 1..k-1 stay in place.
C1_StagesInOrderAbortOnRaise ==
    /\ [](/\ IsPrefix(pl_ran, pl_added)
          /\ (pl_pc = "done" => pl_ran = pl_added /\ pl_effects = pl_added)
          /\ (pl_pc = "raised" =>
                 /\ pl_error = Last(pl_ran)
                 /\ pl_effects = SubSeq(pl_added, 1, Len(pl_ran) - 1)))
    /\ [][/\ Len(pl_ran') <= Len(pl_ran) + 1
          /\ IsPrefix(pl_effects, pl_effects')
          /\ (pl_pc = "raised" => pl_ran' = pl_ran /\ pl_pc' = "raised")]_vars

\* A three-stage pipeline (two from the constructor, one added) whose
\* second stage raised after the first had completed.
C1_Witness ==
    /\ pl_pc = "raised"
    /\ Len(pl_added) = 3
    /\ Len(pl_ran) = 2
    /\ pl_effects = <<pl_added[1]>>
    /\ pl_added[1] # pl_added[2]

\* ------------------------------------------------------------------------
\* Target.__init__: parsing of the target options
\* ------------------------------------------------------------------------
MaxOptions == 2
MaxTokenLen == 3

\* A token is a string, modelled as its sequence of characters.
Chars == {"f", "x", "="}
Tokens == SeqsUpTo(Chars, MaxTokenLen)

\* The names a target declares in options(); test_target.py's MockTarget
\* declares two ("first", "second"), here "f" and "fx".
TargetOptions == << <<"f">>, <<"f", "x">> >>

\* accepted_options = [name for name, _ in self.options()]
AcceptedOptions == {TargetOptions[i] : i \in 1..Len(TargetOptions)}

IndexOf(s, c) ==
    IF \E i \in 1..Len(s) : s[i] = c
       THEN CHOOSE i \in 1..Len(s) : s[i] = c /\ \A j \in 1..(i - 1) : s[j] # c
       ELSE 0

SplitOnce(s) ==
    LET i == IndexOf(s, "=") IN
    IF i = 0 THEN <<s>> ELSE <<SubSeq(s, 1, i - 1), SubSeq(s, i + 1, Len(s))>>

RECURSIVE Split(_)
\* opt.split("="): the pieces between the "=" characters, empty ones kept.
Split(s) ==
    LET i == IndexOf(s, "=") IN
    IF i = 0 THEN <<s>>
    ELSE <<SubSeq(s, 1, i - 1)>> \o Split(SubSeq(s, i + 1, Len(s)))

\* The body of the for-loop for one token: the error it raises, or the
\* (key, value) pair it stores.
ParseOption(opt) ==
    LET parts == Split(opt)
        key == IF Len(parts) \in {1, 2} THEN parts[1] ELSE <<>>
        value == IF Len(parts) = 2 THEN parts[2] ELSE <<>>
    IN  IF Len(parts) > 2 THEN [error |-> "BuildError", key |-> key, value |-> value]
        ELSE IF Len(key) = 0 THEN [error |-> "BuildError", key |-> key, value |-> value]
        ELSE IF key \notin AcceptedOptions
                THEN [error |-> "BuildError", key |-> key, value |-> value]
        ELSE [error |-> None, key |-> key, value |-> value]

\* The `options: list[str] | None` argument of Target.__init__.
OptionArgs ==
    {[isNone |-> TRUE, tokens |-> <<>>]}
        \cup {[isNone |-> FALSE, tokens |-> t] : t \in SeqsUpTo(Tokens, MaxOptions)}

\* dict assignment: self._parsed_options[key] = value
DictSet(d, k, v) == [x \in DOMAIN d \cup {k} |-> IF x = k THEN v ELSE d[x]]

TargetSpecInit ==
    /\ tg_options \in OptionArgs
    /\ tg_pc = "init"
    /\ tg_i = 0
    /\ tg_parsed = <<>>
    /\ tg_error = None
    /\ PipelineIdle
    /\ ManifestIdle
    /\ BuildIdle
    /\ ServiceIdle
    /\ TraefikConfigIdle
    /\ ExtIdle

\* self._parsed_options = {}; if options is None: return
TargetInitEnter ==
    /\ tg_pc = "init"
    /\ tg_parsed' = <<>>
    /\ IF tg_options.isNone
          THEN tg_pc' = "ok" /\ tg_i' = tg_i
          ELSE tg_pc' = "loop" /\ tg_i' = 1
    /\ UNCHANGED <<tg_options, tg_error>>

TargetInitOption ==
    /\ tg_pc = "loop"
    /\ tg_i <= Len(tg_options.tokens)
    /\ LET r == ParseOption(tg_options.tokens[tg_i]) IN
          IF r.error # None
             THEN /\ tg_pc' = "raised"
                  /\ tg_error' = r.error
                  /\ UNCHANGED <<tg_i, tg_parsed>>
             ELSE /\ tg_parsed' = DictSet(tg_parsed, r.key, r.value)
                  /\ tg_i' = tg_i + 1
                  /\ UNCHANGED <<tg_pc, tg_error>>
    /\ UNCHANGED tg_options

TargetInitReturn ==
    /\ tg_pc = "loop"
    /\ tg_i > Len(tg_options.tokens)
    /\ tg_pc' = "ok"
    /\ UNCHANGED <<tg_options, tg_i, tg_parsed, tg_error>>

TargetNext ==
    /\ \/ TargetInitEnter
       \/ TargetInitOption
       \/ TargetInitReturn
    /\ UNCHANGED <<pl_vars, mf_vars, bd_vars, sv_vars, tc_vars, ext_vars>>

SpecTarget == TargetSpecInit /\ [][TargetNext]_vars

\* ------------------------------------------------------------------------
\* BuildManifest: construct, append, save, load
\* ------------------------------------------------------------------------
MaxEntries == 2

ManifestNames == {"roundtrip-test", "services-compose"}

\* The arguments callers hand to the entry constructors, paths still as
\* the strings they are written as (test_build_manifest.py:13-14, 56-60).
RawComposeFiles ==
    { <<".", "/", "first-service", "/", "docker-compose.yml">>,
      <<"docker-compose.yml">>,
      <<"/", "srv", "/", "docker-compose.yml">>,
      <<"first-service", "/", "compose.yml">> }
RawSources ==
    { <<".", "/", "second-service", "/", "Dockerfile">>,
      <<"second-service", "/", "Containerfile">> }
RawEntries ==
    [kind : {"docker-compose"}, file : RawComposeFiles, is_deployable : BOOLEAN]
        \cup [kind : {"image"}, image : {"repo/image:1234"}, source : RawSources]

\* The constructor call a raw entry stands for.
MakeEntry(raw) ==
    IF raw.kind = "docker-compose"
       THEN DockerComposeEntry(ToPath(raw.file), raw.is_deployable)
       ELSE ImageEntry(raw.image, ToPath(raw.source))

ManifestPath == <<"tmp", MANIFEST_FILE>>

\* The items a manifest file written elsewhere may hold: well-formed ones,
\* ones with a path to the wrong file, one of a type load does not know,
\* and ones that lack `type` or a key their type requires.
ManifestItems ==
    { ("type" :> "docker-compose") @@ ("compose-file" :> <<"srv", "/", "docker-compose.yml">>),
      ("type" :> "docker-compose") @@ ("compose-file" :> <<"srv", "/", "compose.yml">>),
      ("type" :> "image") @@ ("image" :> "repo/image:1234")
          @@ ("source" :> <<"srv", "/", "Containerfile">>),
      ("type" :> "other"),
      ("type" :> "docker-compose"),
      ("type" :> "image") @@ ("image" :> "repo/image:1234"),
      ("image" :> "repo/image:1234") }

\* The documents json.load may return for such a file.
ManifestDocuments ==
    { ("type" :> MANIFEST_TYPE) }
        \cup { ("type" :> MANIFEST_TYPE) @@ ("contents" :> items) :
                  items \in SeqsUpTo(ManifestItems, MaxEntries) }

ManifestSpecInit ==
    /\ mf_req \in [name : ManifestNames, entries : SeqsUpTo(RawEntries, MaxEntries)]
    /\ mf_pc = "new"
    /\ mf_manifest = NoManifest
    /\ mf_file = NoFile
    /\ mf_loaded = NoManifest
    /\ mf_error = None
    /\ mf_errors = <<>>
    /\ mf_warnings = <<>>
    /\ PipelineIdle
    /\ TargetIdle
    /\ BuildIdle
    /\ ServiceIdle
    /\ TraefikConfigIdle
    /\ ExtIdle

\* The caller constructs the entries, then BuildManifest(name, entries=[...]).
ManifestConstruct ==
    /\ mf_pc = "new"
    /\ LET made == [i \in 1..Len(mf_req.entries) |-> MakeEntry(mf_req.entries[i])] IN
          IF \E i \in 1..Len(made) : made[i].error # None
             THEN /\ mf_pc' = "raised"
                  /\ mf_error' = "BuildManifestBadFilePathError"
                  /\ UNCHANGED mf_manifest
             ELSE /\ mf_pc' = "built"
                  /\ mf_manifest' = BuildManifest([i \in 1..Len(made) |-> made[i].entry], None)
                  /\ UNCHANGED mf_error
    /\ UNCHANGED <<mf_req, mf_file, mf_loaded, mf_errors, mf_warnings>>

\* manifest.append_entry(entry) with a freshly constructed entry; an entry
\* whose construction raises is never appended.
ManifestAppend ==
    /\ mf_pc = "built"
    /\ Len(mf_manifest.entries) < MaxEntries
    /\ \E raw \in RawEntries :
          LET made == MakeEntry(raw) IN
          IF made.error # None
             THEN /\ mf_pc' = "raised"
                  /\ mf_error' = made.error
                  /\ UNCHANGED mf_manifest
             ELSE /\ mf_manifest' = AppendEntry(mf_manifest, made.entry)
                  /\ UNCHANGED <<mf_pc, mf_error>>
    /\ UNCHANGED <<mf_req, mf_file, mf_loaded, mf_errors, mf_warnings>>

\* manifest.save(path)
ManifestSave ==
    /\ mf_pc = "built"
    /\ mf_file' = ManifestJson(mf_manifest)
    /\ mf_manifest' = [mf_manifest EXCEPT !.source = ManifestPath]
    /\ mf_pc' = "saved"
    /\ UNCHANGED <<mf_req, mf_loaded, mf_error, mf_errors, mf_warnings>>

\* A manifest file that something else wrote is found at the path.
ManifestFound ==
    /\ mf_pc = "new"
    /\ mf_file' \in ManifestDocuments
    /\ mf_pc' = "found"
    /\ UNCHANGED <<mf_req, mf_manifest, mf_loaded, mf_error, mf_errors, mf_warnings>>

\* BuildManifest.load(path) on the file just saved, or on the file found.
\* The default case of its match statement constructs a
\* BuildManifestException and drops it: load records no warning anywhere.
ManifestLoad ==
    /\ mf_pc \in {"saved", "found"}
    /\ LET r == LoadManifest(mf_file, ManifestPath) IN
          IF r.error # None
             THEN /\ mf_pc' = "raised"
                  /\ mf_error' = r.error
                  /\ mf_errors' = IF "errors" \in DOMAIN r THEN r.errors ELSE <<>>
                  /\ UNCHANGED mf_loaded
             ELSE /\ mf_pc' = IF mf_pc = "saved" THEN "loaded" ELSE "read"
                  /\ mf_loaded' = r.manifest
                  /\ UNCHANGED <<mf_error, mf_errors>>
    /\ mf_warnings' = <<>>
    /\ UNCHANGED <<mf_req, mf_manifest, mf_file>>

ManifestNext ==
    /\ \/ ManifestConstruct
       \/ ManifestAppend
       \/ ManifestSave
       \/ ManifestFound
       \/ ManifestLoad
    /\ UNCHANGED <<pl_vars, tg_vars, bd_vars, sv_vars, tc_vars, ext_vars>>

SpecManifest == ManifestSpecInit /\ [][ManifestNext]_vars

\* The name a manifest object carries, if it carries one.
C5_NameOf(manifest) == IF "name" \in DOMAIN manifest THEN manifest.name ELSE None

\* C5: load(save(m)) returns a manifest with the same name, the same number
\* of entries in the same order, and the same type and field values for
\* each entry.
C5_RoundTrip ==
    mf_pc = "loaded" =>
        /\ C5_NameOf(mf_loaded) = mf_req.name
        /\ mf_loaded.entries = mf_manifest.entries

\* A named manifest of two entries, one of them not deployable, was saved
\* and loaded back.
C5_Witness ==
    /\ mf_pc = "loaded"
    /\ Len(mf_manifest.entries) = 2
    /\ \E i \in 1..2 : mf_manifest.entries[i].type = "docker-compose"
                          /\ ~mf_manifest.entries[i].is_deployable

\* The file name an entry of each type must point to.
C12_HasRequiredFilename(entry) ==
    IF entry.type = "docker-compose"
       THEN PathName(entry.compose_file) = "docker-compose.yml"
       ELSE PathName(entry.source) = "Dockerfile"

\* The file name a constructor argument points to.
C12_RawHasRequiredFilename(raw) ==
    IF raw.kind = "docker-compose"
       THEN PathName(ToPath(raw.file)) = "docker-compose.yml"
       ELSE PathName(ToPath(raw.source)) = "Dockerfile"

\* C12: constructing a DockerComposeEntry whose compose_file does not end
\* in docker-compose.yml, or an ImageEntry whose source does not end in
\* Dockerfile, fails at construction; every entry held by a manifest, built
\* with append_entry or returned by load, has the required file name.
C12_EntriesWellFormed ==
    /\ \A i \in DOMAIN mf_manifest.entries : C12_HasRequiredFilename(mf_manifest.entries[i])
    /\ \A i \in DOMAIN mf_loaded.entries : C12_HasRequiredFilename(mf_loaded.entries[i])
    /\ (\E i \in DOMAIN mf_req.entries : ~C12_RawHasRequiredFilename(mf_req.entries[i]))
          => mf_pc \in {"new", "found", "read", "raised"} /\ mf_manifest = NoManifest

\* A file found on disk names a compose file that is not docker-compose.yml;
\* loading it raised at the construction of that entry and returned nothing.
C12_Witness ==
    /\ mf_pc = "raised"
    /\ mf_error = "BuildManifestBadFilePathError"
    /\ mf_file # NoFile
    /\ mf_loaded = NoManifest

\* C20: load on a file that violates the manifest schema raises
\* BuildManifestValidationError and returns no manifest; the exception's
\* errors list has one (path, message) pair for every violation, not only
\* the first, sorted by schema path.
C20_AllViolationsReported ==
    (mf_pc \in {"read", "raised"} /\ mf_file # NoFile /\ SchemaViolations(mf_file) # {}) =>
        /\ mf_pc = "raised"
        /\ mf_error = "BuildManifestValidationError"
        /\ mf_loaded = NoManifest
        /\ Len(mf_errors) = Cardinality(SchemaViolations(mf_file))
        /\ \A v \in SchemaViolations(mf_file) :
              \E i \in DOMAIN mf_errors : mf_errors[i] = <<v.path, v.message>>
        /\ \A i, j \in DOMAIN mf_errors :
              i < j => ~JsonPathLess(mf_errors[j][1], mf_errors[i][1])

\* A file with two malformed items was loaded: two errors, as the test of
\* bad-manifest.json expects.
C20_Witness ==
    /\ mf_pc = "raised"
    /\ mf_error = "BuildManifestValidationError"
    /\ Len(mf_errors) = 2

\* What the claim calls a well-formed token: a bare non-empty key, or
\* key=value with exactly one "=", whose key is a declared option.
C10_EqCount(t) == Cardinality({i \in 1..Len(t) : t[i] = "="})
C10_Key(t) == IF C10_EqCount(t) = 0 THEN t ELSE SubSeq(t, 1, IndexOf(t, "=") - 1)
C10_Value(t) == IF C10_EqCount(t) = 0 THEN <<>> ELSE SubSeq(t, IndexOf(t, "=") + 1, Len(t))
C10_WellFormed(t) ==
    /\ C10_EqCount(t) <= 1
    /\ Len(C10_Key(t)) > 0
    /\ \E i \in 1..Len(TargetOptions) : TargetOptions[i] = C10_Key(t)
C10_Tokens == tg_options.tokens

\* C10: Target(options) succeeds exactly when every token is a bare
\* non-empty key or key=value with exactly one "=" and a declared key; the
\* parsed options then map each key to its value (empty for a bare flag);
\* any other token makes construction fail with a build error.
C10_TargetOptionParsing ==
    /\ tg_pc = "ok" =>
          /\ \A i \in 1..Len(C10_Tokens) : C10_WellFormed(C10_Tokens[i])
          /\ DOMAIN tg_parsed = {C10_Key(C10_Tokens[i]) : i \in 1..Len(C10_Tokens)}
          /\ \A i \in 1..Len(C10_Tokens) :
                (\A j \in (i + 1)..Len(C10_Tokens) :
                    C10_Key(C10_Tokens[j]) # C10_Key(C10_Tokens[i]))
                => tg_parsed[C10_Key(C10_Tokens[i])] = C10_Value(C10_Tokens[i])
    /\ tg_pc = "raised" =>
          /\ tg_error = "BuildError"
          /\ \E i \in 1..Len(C10_Tokens) : ~C10_WellFormed(C10_Tokens[i])

\* A bare flag and a key=value token were both accepted.
C10_Witness ==
    /\ tg_pc = "ok"
    /\ tg_options.tokens = << <<"f">>, <<"f", "x", "=">> >>
    /\ tg_parsed[<<"f">>] = <<>>

\* ------------------------------------------------------------------------
\* Service groups on disk
\* ------------------------------------------------------------------------
\* Three service-group folders in the working directory:
\*   ga  two services, Traefik router;
\*   gb  one service (defined in service.yaml), Traefik router with a
\*       dynamic-config folder `dyn`;
\*   gc  one service, a router provider that does not exist.
Groups == {"ga", "gb", "gc"}

\* The parsed services.yml of a group folder (ServiceGroupDefinition).
GroupDef(g) ==
    [name |-> g,
     folder |-> <<g>>,
     network |-> "net",
     router |-> [provider |-> IF g = "gc" THEN "nginx" ELSE "traefik",
                 config |-> "traefik.yml",
                 args |-> IF g = "gb" THEN ("dynamic-config" :> "dyn") ELSE EmptyDict],
     services |-> IF g = "ga" THEN <<"s1", "s2">>
                  ELSE IF g = "gb" THEN <<"s3">> ELSE <<"s4">>]

SourceTree ==
    [p \in { <<"ga">>, <<"ga", "s1">>, <<"ga", "s2">>, <<"ga", "s2", "conf">>,
             <<"gb">>, <<"gb", "dyn">>, <<"gb", "s3">>,
             <<"gc">>, <<"gc", "s4">> } |-> Dir]
    @@ [p \in { <<"ga", "services.yml">>, <<"ga", "traefik.yml">>,
                <<"ga", "s1", "service.yml">>, <<"ga", "s1", "Dockerfile">>,
                <<"ga", "s2", "service.yml">>, <<"ga", "s2", "conf", "app.cfg">>,
                <<"gb", "services.yml">>, <<"gb", "traefik.yml">>,
                <<"gb", "dyn", "rules.yml">>,
                <<"gb", "s3", "service.yaml">>, <<"gb", "s3", "Dockerfile">>,
                <<"gc", "services.yml">>, <<"gc", "traefik.yml">>,
                <<"gc", "s4", "service.yml">> } |-> File(<<"src">> \o p)]

\* Files of the service folders the operator may delete between two builds.
EditableFiles == { <<"ga", "s2", "conf", "app.cfg">>, <<"ga", "s1", "Dockerfile">> }

\* routers.PROVIDERS
PROVIDERS == {"traefik"}

\* ------------------------------------------------------------------------
\* Stages of the Compose and Image targets.  Each operator is the run()
\* of one stage: it maps the filesystem to the filesystem it leaves and
\* the exception it raises, if any.
\* ------------------------------------------------------------------------
\* resolve_build_folder
ResolveBuildFolder(root, group, use_group_name) ==
    IF use_group_name THEN Append(root, group.name) ELSE root

CreateBuildFolderRunNoCheck(f, build_folder, overwrite, use_group_name, group) ==
    MkDir(f, ResolveBuildFolder(build_folder, group, use_group_name), TRUE, overwrite)

\* CreateBuildFolder.run
CreateBuildFolderRun(f, build_folder, overwrite, use_group_name, group) ==
    LET output == ResolveBuildFolder(build_folder, group, use_group_name) IN
    IF ~overwrite /\ Exists(f, output) THEN Err("BuildError", f)
    ELSE MkDir(f, output, TRUE, overwrite)

\* The name of the service a routing provider generates for itself.
DEFAULT_SERVICE_NAME == "proxy"

\* The document BuildComposeFile.run serialises: the router's own service
\* first, then the members of the group in the order of its services list.
ComposeSpec(group) ==
    [services |-> <<DEFAULT_SERVICE_NAME>> \o group.services,
     networks |-> {group.network}]

\* BuildComposeFile.run
BuildComposeFileRun(f, build_folder, group) ==
    IF group.router.provider \notin PROVIDERS THEN Err("ComposeServiceBuildError", f)
    ELSE WriteFile(f, build_folder \o <<group.name, "docker-compose.yml">>,
                   ComposeSpec(group))

\* BuildRouterConfig.run
BuildRouterConfigRun(f, output, group) ==
    WriteFile(f, output \o <<group.name, group.router.config>>,
              [service |-> [name |-> group.name, network |-> group.network]])

\* TraefikRoutingProvider.copy_resources
TraefikCopyResources(f, args, services_folder, output_folder) ==
    IF "dynamic-config" \notin DOMAIN args THEN Ok(f)
    ELSE LET resource_path == Append(services_folder, args["dynamic-config"]) IN
         IF ~IsDir(f, resource_path) THEN Err("ServiceConfigurationException", f)
         ELSE CopyTree(f, resource_path,
                       Append(output_folder, PathName(resource_path)), FALSE)

RECURSIVE CopyContents(_, _, _)
\* for src in contents: copytree(src, dst, dirs_exist_ok=True) or copy2(src, dst)
CopyContents(f, contents, dst_folder) ==
    IF contents = {} THEN Ok(f)
    ELSE LET src == CHOOSE q \in contents : TRUE
             dst == Append(dst_folder, PathName(src))
             r == IF IsDir(f, src) THEN CopyTree(f, src, dst, TRUE)
                  ELSE CopyFile(f, src, dst)
         IN  IF r.error # None THEN r
             ELSE CopyContents(r.fs, contents \ {src}, dst_folder)

RECURSIVE CopyServices(_, _, _, _)
\* for service in service_group: ... of copy_services_resources
CopyServices(f, group_folder, services, folder) ==
    IF Len(services) = 0 THEN Ok(f)
    ELSE LET service_folder == Append(group_folder, Head(services))
             contents == {q \in IterDir(f, service_folder) : PathName(q) # "service.yml"}
             dst_folder == Append(folder, Head(services))
             made == MkDir(f, dst_folder, FALSE, TRUE)
             copied == IF made.error # None THEN made
                       ELSE CopyContents(made.fs, contents, dst_folder)
         IN  IF copied.error # None THEN copied
             ELSE CopyServices(copied.fs, group_folder, Tail(services), folder)

\* copy_services_resources
CopyServicesResources(f, group, folder) ==
    IF group.router.provider \notin PROVIDERS THEN Err("KeyError", f)
    ELSE LET r == TraefikCopyResources(f, group.router.args, group.folder, folder) IN
         IF r.error # None THEN r
         ELSE CopyServices(r.fs, group.folder, group.services, folder)

\* CopyServiceResources.run
CopyServiceResourcesRun(f, folder, use_group_name, group) ==
    CopyServicesResources(f, group,
                          IF use_group_name THEN Append(folder, group.name) ELSE folder)

\* GenerateOrUpdateManifestFile.run
GenerateOrUpdateManifestFileRun(f, manifest_name, build_folder, group) ==
    LET manifest_json == Append(build_folder, MANIFEST_FILE)
        made == DockerComposeEntry(<<group.name, "docker-compose.yml">>, TRUE)
    IN  IF made.error # None THEN Err(made.error, f)
        ELSE IF manifest_json \in DOMAIN f /\ ~IsDir(f, manifest_json)
           THEN LET loaded == LoadManifest(f[manifest_json].data, manifest_json) IN
                IF loaded.error # None THEN Err(loaded.error, f)
                ELSE WriteFile(f, manifest_json,
                               ManifestJson(AppendEntry(loaded.manifest, made.entry)))
        ELSE WriteFile(f, manifest_json,
                       ManifestJson(BuildManifest(<<made.entry>>, None)))

\* _create_image_name
CreateImageName(registry, tag, service) ==
    IF registry # None THEN <<registry, "/", service, ":", tag>>
    ELSE <<service, ":", tag>>

\* GenerateManifestFile.run of the Image target: a list with one
\* {image, service} item per service of the group.
GenerateManifestFileRun(f, build_folder, registry, tag, group) ==
    WriteFile(f, Append(build_folder, "manifest.json"),
              [i \in 1..Len(group.services) |->
                  [image |-> CreateImageName(registry, tag, group.services[i]),
                   service |-> group.services[i]]])

\* ImageTarget.build before the pipeline runs: an existing build folder is
\* removed, then the folder is created.
ImageTargetPrepare(f, build_folder) ==
    MkDir(IF Exists(f, build_folder) THEN RmTree(f, build_folder) ELSE f,
          build_folder, TRUE, FALSE)

\* ------------------------------------------------------------------------
\* gantry build: main, cmd, and the per-group builds
\* ------------------------------------------------------------------------
MaxInvocations == 2
MaxGroupArgs == 2
MaxEdits == 1

\* An optional command-line value is <<>> (not given) or <<value>>.
Opt(S) == {<<>>} \cup {<<v>> : v \in S}

\* TARGETS
TARGETS == {"compose", "image"}

\* The command lines considered: a target name, the service-group folders,
\* the -X options, --tag and --build-number.  "deploy" is a target name
\* TARGETS does not have.  -X carries the one option a target understands.
InvArgs(targets) ==
    {a \in [target : targets,
            paths : SeqsUpTo(Groups, MaxGroupArgs),
            options : {<<>>, <<"overwrite">>, <<"skip-build">>},
            tag : Opt({"123"}),
            build_number : Opt({1}),
            version : {<<>>}] :
        /\ a.target = "compose" => a.options \in {<<>>, <<"overwrite">>}
        /\ a.target = "image" => a.options \in {<<>>, <<"skip-build">>}
        /\ a.target = "deploy" => a.options = <<>> /\ a.paths = <<>>}

AppFolder == <<".gantry">>
LogFile == <<"gantry.log">>

\* output_path = Path('./build') / f'services.{target}'
OutputPath(target) ==
    IF target = "compose" THEN <<"build", "services.compose">>
    ELSE <<"build", "services.image">>

\* manifest_name = f'services-{target}'
ManifestName(target) ==
    IF target = "compose" THEN "services-compose" ELSE "services-image"

CheckNothing(tag, build_number) == FALSE

\* _check_mutually_exclusive_args: TRUE when it raises.
CheckMutuallyExclusiveArgs(tag, build_number) ==
    LET has_tag == Len(tag) > 0
        has_build == Len(build_number) > 0
    IN  has_tag /\ has_build

\* _generate_version, once the check has passed.
GenerateVersion(tag, build_number) ==
    IF Len(tag) > 0 THEN <<tag[1]>>
    ELSE <<"today", ".", IF Len(build_number) > 0 THEN build_number[1] ELSE 0>>

HasOption(inv, name) == \E i \in 1..Len(inv.options) : inv.options[i] = name

\* The stage lists the two targets hand to their Pipeline.
ComposeStages ==
    <<"CreateBuildFolder", "BuildComposeFile", "BuildRouterConfig",
      "CopyServiceResources", "GenerateOrUpdateManifestFile">>
ImageStagesBuildFirst(skip_build) ==
    (IF skip_build THEN <<>> ELSE <<"BuildDockerImages">>)
        \o <<"CopyServiceResources", "GenerateManifestFile">>

ImageStages(skip_build) ==
    <<"CopyServiceResources", "GenerateManifestFile">>
        \o (IF skip_build THEN <<>> ELSE <<"BuildDockerImages">>)
StagesOf(inv) ==
    IF inv.target = "compose" THEN ComposeStages
    ELSE ImageStages(HasOption(inv, "skip-build"))

\* The exceptions of exceptions/build.py and exceptions/build_manifest.py,
\* all derived from GantryException; what a stage raises otherwise is a
\* Python built-in.
GantryExceptions ==
    {"BuildError", "ComposeServiceBuildError", "ServiceImageBuildError",
     "BuildManifestValidationError", "BuildManifestBadFilePathError"}

\* The run() of the named stage of the target of `inv`, for `group`.
RunStage(name, f, inv, group) ==
    LET output == OutputPath(inv.target) IN
    IF inv.target = "compose" THEN
        CASE name = "CreateBuildFolder" ->
                CreateBuildFolderRun(f, output, HasOption(inv, "overwrite"), TRUE, group)
          [] name = "BuildComposeFile" -> BuildComposeFileRun(f, output, group)
          [] name = "BuildRouterConfig" -> BuildRouterConfigRun(f, output, group)
          [] name = "CopyServiceResources" ->
                CopyServiceResourcesRun(f, output, TRUE, group)
          [] OTHER ->
                GenerateOrUpdateManifestFileRun(f, ManifestName(inv.target), output, group)
    ELSE
        CASE name = "CopyServiceResources" ->
                CopyServiceResourcesRun(f, output, FALSE, group)
          [] OTHER ->
                GenerateManifestFileRun(f, output, None, inv.version, group)

CmdContinue(gi) == [pc |-> "group", gi |-> gi + 1]

\* What cmd does when the build of the gi-th group raised: a
\* GantryException is re-raised as CliException, anything else is not
\* caught; either way the exception leaves the for-loop and the command.
CmdOnFailure(gi) == [pc |-> "failed", gi |-> gi]

BuildInit ==
    /\ fs = SourceTree
    /\ bd_inv = NoInv
    /\ bd_pc = "idle"
    /\ bd_gi = 0
    /\ bd_stage = 0
    /\ bd_error = NoError
    /\ bd_docker = <<>>
    /\ bd_ninv = 0
    /\ bd_edits = 0
    /\ bd_attempted = <<>>
    /\ bd_built = <<>>
    /\ bd_fs0 = SourceTree
    /\ bd_fsG = SourceTree
    /\ bd_prev = NoPrev
    /\ bd_dirty = FALSE
    /\ PipelineIdle
    /\ TargetIdle
    /\ ManifestIdle
    /\ ServiceIdle
    /\ TraefikConfigIdle
    /\ ExtIdle

\* The operator runs `gantry [--logfile F] build ...`.
BuildInvoke ==
    /\ bd_pc \in {"idle", "done", "failed"}
    /\ bd_ninv < MaxInvocations
    /\ bd_pc' = "main"
    /\ bd_ninv' = bd_ninv + 1
    /\ bd_inv' = NoInv
    /\ bd_gi' = 0
    /\ bd_stage' = 0
    /\ bd_error' = NoError
    /\ bd_docker' = <<>>
    /\ bd_attempted' = <<>>
    /\ bd_built' = <<>>
    /\ bd_fs0' = fs
    /\ bd_fsG' = fs
    /\ bd_prev' = IF bd_pc = "done" THEN [ok |-> TRUE, paths |-> bd_inv.paths] ELSE NoPrev
    /\ bd_dirty' = FALSE
    /\ UNCHANGED <<fs, bd_edits>>

\* The operator deletes a file of a service folder between two builds.
BuildEditSource ==
    /\ bd_pc \in {"done", "failed"}
    /\ bd_edits < MaxEdits
    /\ \E path \in EditableFiles \cap DOMAIN fs :
          fs' = [q \in DOMAIN fs \ {path} |-> fs[q]]
    /\ bd_edits' = bd_edits + 1
    /\ bd_dirty' = TRUE
    /\ UNCHANGED <<bd_inv, bd_pc, bd_gi, bd_stage, bd_error, bd_docker, bd_ninv,
                   bd_attempted, bd_built, bd_fs0, bd_fsG, bd_prev>>

\* main: init_logger opens the log file when --logfile is given
\* (logging.FileHandler(logfile, 'w')), the configuration file is read if
\* there is one, and the application folder is created when missing.
BuildMain ==
    /\ bd_pc = "main"
    /\ \E logfile \in BOOLEAN :
          LET logged == IF logfile THEN WriteFile(fs, LogFile, <<"log">>).fs ELSE fs
          IN  fs' = IF ~Exists(logged, AppFolder)
                       THEN MkDir(logged, AppFolder, TRUE, FALSE).fs
                       ELSE logged
    /\ bd_pc' = "cmd"
    /\ UNCHANGED <<bd_inv, bd_gi, bd_stage, bd_error, bd_docker, bd_ninv, bd_edits,
                   bd_attempted, bd_built, bd_fs0, bd_fsG, bd_prev, bd_dirty>>

\* cmd up to its for-loop, for a command line naming one of `targets`: the
\* version is generated, the target looked up.
BuildCmd(targets) ==
    /\ bd_pc = "cmd"
    /\ \E a \in InvArgs(targets) :
          IF CheckMutuallyExclusiveArgs(a.tag, a.build_number)
             THEN /\ bd_pc' = "failed"
                  /\ bd_error' = [kind |-> "CliException",
                                  message |-> "Cannot specify both \"--tag\" and \"--build-number\"."]
                  /\ bd_inv' = [a EXCEPT !.version = <<>>]
                  /\ UNCHANGED bd_gi
          ELSE IF a.target \notin TARGETS
             THEN /\ bd_pc' = "failed"
                  /\ bd_error' = [kind |-> "CliException",
                                  message |-> "There is no build target."]
                  /\ bd_inv' = [a EXCEPT !.version = <<>>]
                  /\ UNCHANGED bd_gi
          ELSE /\ bd_pc' = "group"
               /\ bd_gi' = 1
               /\ bd_inv' = [a EXCEPT !.version = GenerateVersion(a.tag, a.build_number)]
               /\ UNCHANGED bd_error
    /\ UNCHANGED <<fs, bd_stage, bd_docker, bd_ninv, bd_edits, bd_attempted,
                   bd_built, bd_fs0, bd_fsG, bd_prev, bd_dirty>>

\* One iteration of the for-loop begins: the group is loaded, the target
\* is constructed and its build() is entered.  ImageTarget.build first
\* removes and recreates the build folder; then Pipeline.run starts.
BuildGroupStart ==
    /\ bd_pc = "group"
    /\ bd_gi <= Len(bd_inv.paths)
    /\ bd_attempted' = Append(bd_attempted, bd_inv.paths[bd_gi])
    /\ bd_fsG' = fs
    /\ LET r == IF bd_inv.target = "image"
                   THEN ImageTargetPrepare(fs, OutputPath(bd_inv.target)) ELSE Ok(fs)
       IN  /\ fs' = r.fs
           /\ IF r.error # None
                 THEN /\ bd_pc' = CmdOnFailure(bd_gi).pc
                      /\ bd_gi' = CmdOnFailure(bd_gi).gi
                      /\ bd_error' = [kind |-> r.error, message |-> "uncaught"]
                      /\ UNCHANGED bd_stage
                 ELSE /\ bd_pc' = "stage"
                      /\ bd_stage' = 1
                      /\ UNCHANGED <<bd_gi, bd_error>>
    /\ UNCHANGED <<bd_inv, bd_docker, bd_ninv, bd_edits, bd_built, bd_fs0, bd_prev,
                   bd_dirty>>

\* What follows a stage that returned (next stage, or next group) or
\* raised (the except clause of cmd).
BuildAfterStage(error) ==
    LET g == bd_inv.paths[bd_gi] IN
    IF error # None
       THEN /\ bd_pc' = CmdOnFailure(bd_gi).pc
            /\ bd_gi' = CmdOnFailure(bd_gi).gi
            /\ bd_error' = [kind |-> IF error \in GantryExceptions
                                        THEN "CliException" ELSE error,
                            message |-> IF error \in GantryExceptions
                                           THEN "Failed to build" ELSE "uncaught",
                            group |-> g, cause |-> error, stage |-> bd_stage]
            /\ UNCHANGED <<bd_stage, bd_built>>
    ELSE IF bd_stage < Len(StagesOf(bd_inv))
       THEN /\ bd_stage' = bd_stage + 1
            /\ UNCHANGED <<bd_pc, bd_gi, bd_error, bd_built>>
    ELSE /\ bd_pc' = "group"
         /\ bd_gi' = bd_gi + 1
         /\ bd_built' = Append(bd_built, g)
         /\ UNCHANGED <<bd_stage, bd_error>>

\* Pipeline.run runs the next stage of the current group's build.
BuildStage ==
    /\ bd_pc = "stage"
    /\ StagesOf(bd_inv)[bd_stage] # "BuildDockerImages"
    /\ LET r == RunStage(StagesOf(bd_inv)[bd_stage], fs, bd_inv,
                         GroupDef(bd_inv.paths[bd_gi]))
       IN  /\ fs' = r.fs
           /\ BuildAfterStage(r.error)
    /\ UNCHANGED <<bd_inv, bd_docker, bd_ninv, bd_edits, bd_attempted, bd_fs0,
                   bd_fsG, bd_prev, bd_dirty>>

\* BuildDockerImages.run: the services are built one after the other; the
\* Docker daemon decides whether a build reports an error, and the first
\* error raises ServiceImageBuildError.
BuildDockerStage ==
    /\ bd_pc = "stage"
    /\ StagesOf(bd_inv)[bd_stage] = "BuildDockerImages"
    /\ LET services == GroupDef(bd_inv.paths[bd_gi]).services IN
       \E n \in 0..Len(services) : \E failed \in BOOLEAN :
          /\ failed => n < Len(services)
          /\ ~failed => n = Len(services)
          /\ bd_docker' = bd_docker \o SubSeq(services, 1, IF failed THEN n + 1 ELSE n)
          /\ BuildAfterStage(IF failed THEN "ServiceImageBuildError" ELSE None)
    /\ UNCHANGED <<fs, bd_inv, bd_ninv, bd_edits, bd_attempted, bd_fs0, bd_fsG,
                   bd_prev, bd_dirty>>

\* The for-loop is exhausted: cmd returns.
BuildCmdReturn ==
    /\ bd_pc = "group"
    /\ bd_gi > Len(bd_inv.paths)
    /\ bd_pc' = "done"
    /\ UNCHANGED <<fs, bd_inv, bd_gi, bd_stage, bd_error, bd_docker, bd_ninv,
                   bd_edits, bd_attempted, bd_built, bd_fs0, bd_fsG, bd_prev,
                   bd_dirty>>

\* gantry build compose ... (or a target name that does not exist)
ComposeNext ==
    /\ \/ BuildInvoke
       \/ BuildEditSource
       \/ BuildMain
       \/ BuildCmd({"compose", "deploy"})
       \/ BuildGroupStart
       \/ BuildStage
       \/ BuildCmdReturn
    /\ UNCHANGED <<pl_vars, tg_vars, mf_vars, sv_vars, tc_vars, ext_vars>>

SpecCompose == BuildInit /\ [][ComposeNext]_vars

\* gantry build image ...
ImageNext ==
    /\ \/ BuildInvoke
       \/ BuildEditSource
       \/ BuildMain
       \/ BuildCmd({"image"})
       \/ BuildGroupStart
       \/ BuildStage
       \/ BuildDockerStage
       \/ BuildCmdReturn
    /\ UNCHANGED <<pl_vars, tg_vars, mf_vars, sv_vars, tc_vars, ext_vars>>

SpecImage == BuildInit /\ [][ImageNext]_vars

\* ------------------------------------------------------------------------
\* Properties of the build command
\* ------------------------------------------------------------------------
\* The group the for-loop of cmd is at.
CurrentGroup == bd_inv.paths[bd_gi]

\* The for-loop of cmd is inside an iteration, or was left from one.
InGroup == bd_gi \in 1..Len(bd_inv.paths) /\ bd_pc \in {"stage", "failed"}

\* The data of the manifest.json at the root of a target's build folder.
ManifestPathOf(target) == Append(OutputPath(target), MANIFEST_FILE)
HasManifest(f, target) ==
    ManifestPathOf(target) \in DOMAIN f /\ f[ManifestPathOf(target)].kind = "file"
ManifestData(f, target) == f[ManifestPathOf(target)].data

C3_ComposeManifest ==
    (/\ bd_pc = "done"
     /\ bd_inv.target = "compose"
     /\ Len(bd_inv.paths) >= 1
     /\ ~Exists(bd_fs0, OutputPath("compose"))) =>
        /\ HasManifest(fs, "compose")
        /\ LET json == ManifestData(fs, "compose") IN
           /\ Len(json["contents"]) = Len(bd_inv.paths)
           /\ \A i \in 1..Len(bd_inv.paths) :
                 /\ json["contents"][i]["type"] = "docker-compose"
                 /\ json["contents"][i]["compose-file"]
                       = AsPosix(<<bd_inv.paths[i], "docker-compose.yml">>)
           /\ "name" \in DOMAIN json
           /\ json["name"] = ManifestName("compose")

RECURSIVE ServicesOf(_)
\* The services of the groups of an argument list, in order.
ServicesOf(paths) ==
    IF Len(paths) = 0 THEN <<>>
    ELSE GroupDef(Head(paths)).services \o ServicesOf(Tail(paths))

\* C4: several groups built with the Image target (skip-build) in one
\* invocation accumulate: the manifest holds one entry per service of every
\* group, in group order then service order, and the copied resources of
\* every group are still there.
C4_ImageManifestAccumulates ==
    (/\ bd_pc = "done"
     /\ bd_inv.target = "image"
     /\ HasOption(bd_inv, "skip-build")
     /\ Len(bd_inv.paths) >= 1
     /\ \A i, j \in 1..Len(bd_inv.paths) : i # j => bd_inv.paths[i] # bd_inv.paths[j]) =>
        /\ HasManifest(fs, "image")
        /\ LET items == ManifestData(fs, "image")
               expected == ServicesOf(bd_inv.paths)
           IN  /\ Len(items) = Len(expected)
               /\ \A i \in 1..Len(expected) : items[i].service = expected[i]
        /\ \A i \in 1..Len(ServicesOf(bd_inv.paths)) :
              IsDir(fs, Append(OutputPath("image"), ServicesOf(bd_inv.paths)[i]))

\* C6: a Compose build of a group, repeated with the overwrite option into
\* the same build folder, leaves the build folder (manifest.json and its
\* entries included) as the first build left it.
C6_RebuildIdempotent ==
    (/\ bd_pc = "done"
     /\ bd_inv.target = "compose"
     /\ HasOption(bd_inv, "overwrite")
     /\ Len(bd_inv.paths) = 1
     /\ bd_prev.ok
     /\ bd_prev.paths = bd_inv.paths
     /\ ~bd_dirty) =>
        Subtree(fs, OutputPath("compose")) = Subtree(bd_fs0, OutputPath("compose"))

\* C7: a Compose build without the overwrite option of a group whose
\* output folder exists fails with a BuildError in the first stage; no
\* later stage runs and, until the operator touches it, the filesystem is
\* as it was when the group's build started.
C7_ExistingFolderFailsFirst ==
    (/\ InGroup
     /\ bd_inv.target = "compose"
     /\ ~HasOption(bd_inv, "overwrite")
     /\ Exists(bd_fsG, Append(OutputPath("compose"), CurrentGroup))
     /\ ~bd_dirty) =>
        /\ bd_stage = 1
        /\ fs = bd_fsG
        /\ bd_built = SubSeq(bd_inv.paths, 1, bd_gi - 1)
        /\ bd_pc = "failed" =>
              /\ bd_error.kind = "CliException"
              /\ bd_error.cause = "BuildError"
              /\ bd_error.stage = 1

C7_Witness ==
    /\ InGroup
    /\ bd_pc = "failed"
    /\ bd_inv.target = "compose"
    /\ ~HasOption(bd_inv, "overwrite")
    /\ bd_error.cause = "BuildError"
    /\ HasManifest(bd_fsG, "compose")
    /\ Append(OutputPath("compose"), CurrentGroup) \o <<"docker-compose.yml">> \in DOMAIN bd_fsG

\* The manifest of the Compose build folder has an entry for the group:
\* its pipeline ran to the end before.
BuiltBefore(f, g) ==
    /\ HasManifest(f, "compose")
    /\ \E i \in 1..Len(ManifestData(f, "compose")["contents"]) :
          ManifestData(f, "compose")["contents"][i]["compose-file"]
              = AsPosix(<<g, "docker-compose.yml">>)

\* Every file below a service's output folder has its source in the
\* service's folder.
NoStaleFiles(f, g) ==
    \A q \in DOMAIN f :
        \A i \in 1..Len(GroupDef(g).services) :
            LET out == OutputPath("compose") \o <<g, GroupDef(g).services[i]>> IN
            IsUnder(q, out) =>
                <<g, GroupDef(g).services[i]>> \o SubSeq(q, Len(out) + 1, Len(q)) \in DOMAIN f

\* C8: a Compose build with the overwrite option of a group that was built
\* before always succeeds, and afterwards the group's output folder holds
\* what the new build produced: files only the earlier build had are gone.
C8_OverwriteReplaces ==
    /\ (/\ InGroup
        /\ bd_inv.target = "compose"
        /\ HasOption(bd_inv, "overwrite")
        /\ BuiltBefore(bd_fsG, CurrentGroup)) => bd_pc # "failed"
    /\ (/\ bd_pc = "done"
        /\ bd_inv.target = "compose"
        /\ HasOption(bd_inv, "overwrite")
        /\ ~bd_dirty) =>
            \A i \in 1..Len(bd_inv.paths) : NoStaleFiles(fs, bd_inv.paths[i])

BothGiven == Len(bd_inv.tag) > 0 /\ Len(bd_inv.build_number) > 0

UsageError == "Cannot specify both \"--tag\" and \"--build-number\"."

\* C9 as stated: an invocation with both a tag and a build number fails
\* with the usage error and writes nothing at all to the filesystem.
C9_NoWritesAnywhere ==
    (BothGiven /\ ~bd_dirty) =>
        /\ bd_pc = "failed"
        /\ bd_error.message = UsageError
        /\ fs = bd_fs0

\* C9, amended: an invocation with both a tag and a build number fails with
\* the usage error before any group is loaded or built; what it writes is
\* what main writes before the command runs, the log file and the
\* application folder, and nothing else.
C9_UsageErrorBeforeAnyBuild ==
    (BothGiven /\ ~bd_dirty) =>
        /\ bd_pc = "failed"
        /\ bd_error.kind = "CliException"
        /\ bd_error.message = UsageError
        /\ bd_attempted = <<>>
        /\ bd_built = <<>>
        /\ bd_docker = <<>>
        /\ \A q \in DOMAIN bd_fs0 : q \in DOMAIN fs /\ (q # LogFile => fs[q] = bd_fs0[q])
        /\ DOMAIN fs \ DOMAIN bd_fs0 \subseteq {AppFolder, LogFile}

C9_Witness ==
    /\ BothGiven
    /\ bd_pc = "failed"
    /\ bd_error.message = UsageError
    /\ LogFile \in DOMAIN fs \ DOMAIN bd_fs0
    /\ AppFolder \in DOMAIN fs \ DOMAIN bd_fs0

\* ------------------------------------------------------------------------
\* ServiceDefinition (services.py)
\*
\* A Python str is modelled as the sequence of its pieces; the pieces of a
\* service name and of a route are their characters.  A dict whose order
\* matters downstream is modelled as the sequence of its items.
\* ------------------------------------------------------------------------
MaxCalls == 2

\* One optional key of a definition file.
Field(key, opt) == IF Len(opt) = 0 THEN EmptyDict ELSE (key :> opt[1])

ServiceNames == { <<"s", "v">>, <<"a", "p", "p">> }

\* The resolved folder a service file is loaded from.
ServiceFolder == <<"/", "work", "srv-dir">>

\* The forms of `entrypoint` in a service file: a string, or an object
\* with `routes` and an optional `listens-on`.
Entrypoints ==
    { [type |-> "str", value |-> <<"/", "m", "y">>],
      [type |-> "str", value |-> <<"/", "f", "o", "o">>],
      [type |-> "dict",
       value |-> ("routes" :> << <<"/", "f", "o", "o">>, <<"/", "b", "a", "r">> >>)],
      [type |-> "dict",
       value |-> ("routes" :> << <<"/", "f", "o", "o">>, <<"/", "b", "a", "r">> >>)
                    @@ ("listens-on" :> 8080)] }

\* environment, files, service-ports and volumes of a service file.
Resources ==
    ("environment" :> << [key |-> "MODE", value |-> 1] >>)
        @@ ("files" :> << [ref |-> "cfg", internal |-> "/etc/app.cfg",
                           external |-> "./app.cfg"] >>)
        @@ ("service-ports" :> << [ref |-> "dns", internal |-> 53, external |-> 5353,
                                   protocol |-> "udp"] >>)
        @@ ("volumes" :> << [name |-> "data", path |-> "/data"] >>)

\* The parsed service.yml files considered.
ServiceDefinitions ==
    { ("name" :> n) @@ Field("image", i) @@ Field("entrypoint", e)
          @@ Field("build-args", b) @@ Field("healthcheck", h)
          @@ Field("metadata", m) @@ r :
        n \in ServiceNames,
        i \in Opt({<<"hello-world:latest">>}),
        e \in Opt(Entrypoints),
        b \in Opt({EmptyDict, ("foo" :> 1) @@ ("bar" :> 2)}),
        h \in Opt({("test" :> "curl")}),
        m \in Opt({(<<"a">> :> 1)}),
        r \in {EmptyDict, Resources} }

\* The keys and the value the caller hands to set_metadata.
MetadataKeys == { <<"a">>, <<"image">> }
MetadataValue == 2

\* ServiceDefinition.metadata; an absent dict reads as empty here.
Metadata(def) == IF "metadata" \in DOMAIN def THEN def["metadata"] ELSE EmptyDict

\* ServiceDefinition.set_metadata: the definition it leaves and the
\* exception it raises, if any.
SetMetadata(def, key, value, override) ==
    LET d1 == IF "metadata" \notin DOMAIN def THEN def @@ ("metadata" :> EmptyDict)
              ELSE def
    IN  IF key \in {<<k>> : k \in DOMAIN d1} /\ ~override
           THEN [error |-> "ValueError", def |-> d1]
           ELSE [error |-> None,
                 def |-> [d1 EXCEPT !["metadata"] = (key :> value) @@ @]]

ServiceInit ==
    /\ sv_def = EmptyDict
    /\ sv_folder = <<>>
    /\ sv_args = EmptyDict
    /\ sv_pc = "new"
    /\ sv_error = None
    /\ sv_call = NoCall
    /\ sv_ncalls = 0
    /\ sv_compose = EmptyDict
    /\ PipelineIdle
    /\ TargetIdle
    /\ ManifestIdle
    /\ BuildIdle
    /\ TraefikConfigIdle
    /\ ExtIdle

\* ServiceDefinition(folder=...): a service file is loaded.
ServiceLoad ==
    /\ sv_pc = "new"
    /\ sv_def' \in ServiceDefinitions
    /\ sv_folder' = <<ServiceFolder>>
    /\ sv_pc' = "loaded"
    /\ UNCHANGED <<sv_args, sv_error, sv_call, sv_ncalls, sv_compose>>

\* A caller sets a metadata key of the service.
ServiceSetMetadata ==
    /\ sv_pc = "loaded"
    /\ sv_ncalls < MaxCalls
    /\ \E key \in MetadataKeys : \E override \in BOOLEAN :
          LET r == SetMetadata(sv_def, key, MetadataValue, override) IN
          /\ sv_def' = r.def
          /\ sv_call' = [made |-> TRUE, key |-> key, value |-> MetadataValue,
                         override |-> override, before |-> Metadata(sv_def),
                         raised |-> r.error # None]
    /\ sv_ncalls' = sv_ncalls + 1
    /\ UNCHANGED <<sv_folder, sv_args, sv_pc, sv_error, sv_compose>>

\* ServiceDefinition.entrypoint: `routes` is what the definition holds, a
\* str or a list of str; the default is the str '/{name}'.
Entrypoint(def) ==
    IF "entrypoint" \notin DOMAIN def
       THEN [routes |-> [type |-> "str", value |-> <<"/">> \o def["name"]],
             listens_on |-> 80]
    ELSE IF def["entrypoint"].type = "str"
       THEN [routes |-> def["entrypoint"], listens_on |-> 80]
    ELSE [routes |-> [type |-> "list", value |-> def["entrypoint"].value["routes"]],
          listens_on |-> DictGet(def["entrypoint"].value, "listens-on", 80)]

\* What `for url in routes` yields: the elements of a list, the
\* characters of a str.
Iterate(routes) ==
    IF routes.type = "str"
       THEN [i \in 1..Len(routes.value) |-> <<routes.value[i]>>]
       ELSE routes.value

\* ------------------------------------------------------------------------
\* TraefikConfig (routers/traefik/_config.py)
\* ------------------------------------------------------------------------
\* TraefikConfig.__init__; None is <<>>, a value v is <<v>>.
TraefikConfigNew ==
    [enable_tls |-> FALSE, port |-> <<>>, routes |-> <<>>, service |-> <<>>]

AddRouteNoCheck(cfg, route) ==
    LET routes == IF Len(cfg.routes) = 0 THEN <<>> ELSE cfg.routes[1] IN
    [error |-> None, cfg |-> [cfg EXCEPT !.routes = <<Append(routes, route)>>]]

AddRouteFront(cfg, route) ==
    LET routes == IF Len(cfg.routes) = 0 THEN <<>> ELSE cfg.routes[1] IN
    IF \E i \in 1..Len(routes) : routes[i] = route
       THEN [error |-> "ValueError", cfg |-> cfg]
       ELSE [error |-> None, cfg |-> [cfg EXCEPT !.routes = << <<route>> \o routes >>]]

\* TraefikConfig.add_route
AddRoute(cfg, route) ==
    LET routes == IF Len(cfg.routes) = 0 THEN <<>> ELSE cfg.routes[1] IN
    IF \E i \in 1..Len(routes) : routes[i] = route
       THEN [error |-> "ValueError", cfg |-> cfg]
       ELSE [error |-> None, cfg |-> [cfg EXCEPT !.routes = <<Append(routes, route)>>]]

\* TraefikConfig.set_enable_tls
SetEnableTls(cfg, enable_tls) == [cfg EXCEPT !.enable_tls = enable_tls]

\* TraefikConfig.set_port
SetPort(cfg, port) == [cfg EXCEPT !.port = <<port>>]

\* TraefikConfig.set_service
SetService(cfg, service) == [cfg EXCEPT !.service = <<service>>]

\* The backquote character of the rule syntax.
Backquote == "BACKQUOTE"

\* f"PathPrefix(`{route}`)"
PathPrefix(route) == <<"PathPrefix(", Backquote>> \o route \o <<Backquote, ")">>

RECURSIVE JoinRoutes(_)
\* " || ".join(PathPrefix(route) for route in routes)
JoinRoutes(routes) ==
    IF Len(routes) = 0 THEN <<>>
    ELSE IF Len(routes) = 1 THEN PathPrefix(Head(routes))
    ELSE PathPrefix(Head(routes)) \o <<" || ">> \o JoinRoutes(Tail(routes))

\* The label keys of to_labels.
EnableKey == <<"traefik.enable">>
PortKey(name) == <<"traefik.http.services.">> \o name \o <<".loadbalancer.server.port">>
RuleKey(name) == <<"traefik.http.routers.">> \o name \o <<".rule">>
ServiceKey(name) == <<"traefik.http.routers.">> \o name \o <<".service">>
TlsKey(name) == <<"traefik.http.routers.">> \o name \o <<".tls">>

\* TraefikConfig.to_labels; a port of 0, like an unset port or an empty
\* route list, is falsy and gives no label.
ToLabels(cfg, name) ==
    (EnableKey :> TRUE)
        @@ (IF Len(cfg.port) > 0 /\ cfg.port[1] # 0
               THEN (PortKey(name) :> cfg.port[1]) ELSE EmptyDict)
        @@ (IF Len(cfg.routes) > 0 /\ Len(cfg.routes[1]) > 0
               THEN (RuleKey(name) :> JoinRoutes(cfg.routes[1])) ELSE EmptyDict)
        @@ (IF Len(cfg.service) > 0 THEN (ServiceKey(name) :> cfg.service[1]) ELSE EmptyDict)
        @@ (IF cfg.enable_tls THEN (TlsKey(name) :> TRUE) ELSE EmptyDict)

\* ------------------------------------------------------------------------
\* TraefikRoutingProvider (routers/traefik/_provider.py)
\* ------------------------------------------------------------------------
DOCKER_SOCKET == "/var/run/docker.sock"
TRAEFIK_IMAGE == "traefik:v2.10.1"
TRAEFIK_CONFIG == "/etc/traefik/traefik.yml"

\* The args of a router; BuildComposeFile.run always adds config-file.
RouterArgs ==
    { ("config-file" :> "traefik.yml") @@ Field("enable-tls", t)
          @@ Field("enable-dashboard", d) @@ Field("enable-api", a) :
        t \in Opt(BOOLEAN), d \in Opt({TRUE}), a \in Opt({TRUE}) }

GenerateServiceDashboardOnly(args) ==
    LET enable_dashboard == DictGet(args, "enable-dashboard", FALSE)
        enable_api == enable_dashboard \/ DictGet(args, "enable-api", FALSE)
    IN  ("name" :> <<DEFAULT_SERVICE_NAME>>)
            @@ ("image" :> <<TRAEFIK_IMAGE>>)
            @@ ("entrypoint" :>
                   [type |-> "dict",
                    value |-> ("routes" :> (IF enable_api THEN << <<"/api">> >> ELSE <<>>)
                                            \o (IF enable_dashboard
                                                   THEN << <<"/dashboard">> >> ELSE <<>>))])
            @@ ("files" :>
                   << [ref |-> "static-config", internal |-> TRAEFIK_CONFIG,
                       external |-> args["config-file"]] >>
                   \o (IF DictGet(args, "map-socket", TRUE)
                          THEN << [ref |-> "docker-socket", internal |-> DOCKER_SOCKET,
                                   external |-> DictGet(args, "socket", DOCKER_SOCKET)] >>
                          ELSE <<>>))
            @@ ("service-ports" :>
                   << [ref |-> "http", internal |-> 80, external |-> 80] >>
                   \o (IF DictGet(args, "enable-tls", FALSE)
                          THEN << [ref |-> "https", internal |-> 443, external |-> 443] >>
                          ELSE <<>>))
            @@ ("metadata" :>
                   IF enable_dashboard
                      THEN (ServiceKey(<<DEFAULT_SERVICE_NAME>>) :> "api@internal")
                      ELSE (<<"enable">> :> TRUE))

\* TraefikRoutingProvider.generate_service (without a dynamic-config
\* folder): the definition of the router's own service.
GenerateService(args) ==
    LET enable_dashboard == DictGet(args, "enable-dashboard", FALSE)
        enable_api == enable_dashboard \/ DictGet(args, "enable-api", FALSE)
    IN  ("name" :> <<DEFAULT_SERVICE_NAME>>)
            @@ ("image" :> <<TRAEFIK_IMAGE>>)
            @@ ("entrypoint" :>
                   [type |-> "dict",
                    value |-> ("routes" :> (IF enable_api THEN << <<"/api">> >> ELSE <<>>)
                                            \o (IF enable_dashboard
                                                   THEN << <<"/dashboard">> >> ELSE <<>>))])
            @@ ("files" :>
                   << [ref |-> "static-config", internal |-> TRAEFIK_CONFIG,
                       external |-> args["config-file"]] >>
                   \o (IF DictGet(args, "map-socket", TRUE)
                          THEN << [ref |-> "docker-socket", internal |-> DOCKER_SOCKET,
                                   external |-> DictGet(args, "socket", DOCKER_SOCKET)] >>
                          ELSE <<>>))
            @@ ("service-ports" :>
                   << [ref |-> "http", internal |-> 80, external |-> 80] >>
                   \o (IF DictGet(args, "enable-tls", FALSE)
                          THEN << [ref |-> "https", internal |-> 443, external |-> 443] >>
                          ELSE <<>>))
            @@ ("metadata" :>
                   IF enable_api \/ enable_dashboard
                      THEN (ServiceKey(<<DEFAULT_SERVICE_NAME>>) :> "api@internal")
                      ELSE (<<"enable">> :> TRUE))

RECURSIVE AddRoutes(_, _)
\* for url in entrypoint.routes: config.add_route(url)
AddRoutes(cfg, urls) ==
    IF Len(urls) = 0 THEN [error |-> None, cfg |-> cfg]
    ELSE LET r == AddRoute(cfg, Head(urls)) IN
         IF r.error # None THEN r ELSE AddRoutes(r.cfg, Tail(urls))

RECURSIVE SetLabels(_, _)
\* for key, value in labels.items(): service.set_metadata(key, value)
SetLabels(def, labels) ==
    IF DOMAIN labels = {} THEN [error |-> None, def |-> def]
    ELSE LET key == CHOOSE k \in DOMAIN labels : TRUE
             r == SetMetadata(def, key, labels[key], FALSE)
         IN  IF r.error # None THEN r
             ELSE SetLabels(r.def, [k \in DOMAIN labels \ {key} |-> labels[k]])

\* TraefikRoutingProvider.register_service
RegisterService(args, def) ==
    LET entrypoint == Entrypoint(def)
        config == SetPort(SetEnableTls(TraefikConfigNew, DictGet(args, "enable-tls", FALSE)),
                          entrypoint.listens_on)
        routed == AddRoutes(config, Iterate(entrypoint.routes))
    IN  IF routed.error # None THEN [error |-> routed.error, def |-> def]
        ELSE SetLabels(def, ToLabels(routed.cfg, def["name"]))

\* A provider is constructed and generates its own service.
ServiceGenerate ==
    /\ sv_pc = "new"
    /\ sv_args' \in RouterArgs
    /\ sv_def' = GenerateService(sv_args')
    /\ sv_folder' = <<>>
    /\ sv_pc' = "generated"
    /\ UNCHANGED <<sv_error, sv_call, sv_ncalls, sv_compose>>

\* The provider registers a service: its own, or a service of the group.
ServiceRegister ==
    /\ sv_pc \in {"loaded", "generated"}
    /\ IF sv_pc = "generated" THEN sv_args' = sv_args ELSE sv_args' \in RouterArgs
    /\ LET r == RegisterService(sv_args', sv_def) IN
       /\ sv_def' = r.def
       /\ sv_error' = r.error
       /\ sv_pc' = IF r.error # None THEN "raised" ELSE "registered"
    /\ UNCHANGED <<sv_folder, sv_call, sv_ncalls, sv_compose>>

\* ------------------------------------------------------------------------
\* _convert_to_compose_service (targets/compose.py)
\* ------------------------------------------------------------------------
Network == "net"
DefaultTag == "custom"

\* str(value) of an environment value.
Str(value) == [str |-> value]

\* PortMapping.__str__
PortStr(item) ==
    <<item.external, ":", item.internal>>
        \o (IF "protocol" \in DOMAIN item /\ item.protocol = "udp"
               THEN <<"/", "udp">> ELSE <<>>)

\* PathMapping.__str__; read-only unless the mapping says otherwise.
PathStr(item) ==
    <<item.external, ":", item.internal>>
        \o (IF "read-only" \in DOMAIN item /\ ~item["read-only"] THEN <<>> ELSE <<":ro">>)

\* ServiceDefinition.environment, .service_ports, .files, .volumes and
\* .build_args: the items of the definition, empty when the key is absent.
Items(def, key) == IF key \in DOMAIN def THEN def[key] ELSE <<>>
BuildArgs(def) == DictGet(def, "build-args", EmptyDict)

\* ServiceDefinition.healthcheck, which compose.py:78 reads: the
\* `healthcheck` of the service file, None when it declares none.
Healthcheck(def) == DictGet(def, "healthcheck", EmptyDict)

\* The build context: folder.relative_to(folder.parent).as_posix(), or "."
\* for a service without a folder (compose.py:54-57).
BuildContext(folder) ==
    IF Len(folder) > 0
       THEN AsPosix(SubSeq(folder[1], Len(PathParent(folder[1])) + 1, Len(folder[1])))
       ELSE <<".">>

ComposeImageAlwaysBuild(def, folder, tag) ==
    (IF "image" \in DOMAIN def /\ Len(def["image"]) > 0
        THEN ("image" :> def["image"])
        ELSE ("image" :> def["name"] \o <<":", tag>>))
        @@ ("build" :>
               (("context" :> BuildContext(folder))
                   @@ (IF DOMAIN BuildArgs(def) # {}
                          THEN ("args" :> BuildArgs(def)) ELSE EmptyDict)))

\* The image and build keys of the conversion (compose.py:51-63).
ComposeImage(def, folder, tag) ==
    IF "image" \in DOMAIN def /\ Len(def["image"]) > 0
       THEN ("image" :> def["image"])
       ELSE ("image" :> def["name"] \o <<":", tag>>)
               @@ ("build" :>
                      (("context" :> BuildContext(folder))
                          @@ (IF DOMAIN BuildArgs(def) # {}
                                 THEN ("args" :> BuildArgs(def)) ELSE EmptyDict)))

ComposeHealthcheckNever(def) == EmptyDict

\* The healthcheck key of the conversion (compose.py:78-79).
ComposeHealthcheck(def) ==
    IF DOMAIN Healthcheck(def) = {} THEN ("healthcheck" :> ("disable" :> TRUE))
    ELSE EmptyDict

\* The dict of the conversion before its empty keys are deleted
\* (compose.py:49-82).
ComposeServiceRaw(def, folder, network, tag) ==
    ("container_name" :> def["name"])
        @@ ComposeImage(def, folder, tag)
        @@ ("environment" :>
               [i \in 1..Len(Items(def, "environment")) |->
                   [key |-> Items(def, "environment")[i].key,
                    value |-> Str(Items(def, "environment")[i].value)]])
        @@ ("restart" :> <<"unless-stopped">>)
        @@ ("ports" :>
               [i \in 1..Len(Items(def, "service-ports")) |->
                   PortStr(Items(def, "service-ports")[i])])
        @@ ("networks" :> <<network>>)
        @@ ("volumes" :>
               [i \in 1..Len(Items(def, "files")) |-> PathStr(Items(def, "files")[i])]
               \o [i \in 1..Len(Items(def, "volumes")) |->
                      def["name"] \o <<"-", Items(def, "volumes")[i].name, ":",
                                       Items(def, "volumes")[i].path>>])
        @@ ComposeHealthcheck(def)
        @@ (IF DOMAIN Metadata(def) # {} THEN ("labels" :> Metadata(def)) ELSE EmptyDict)

DeleteNothing(compose_service) == compose_service

\* The two loops that delete the keys whose value has length 0
\* (compose.py:84-90).
DeleteEmptyKeys(compose_service) ==
    [k \in {key \in DOMAIN compose_service : DOMAIN compose_service[key] # {}} |->
        compose_service[k]]

\* _convert_to_compose_service
ConvertToComposeService(def, folder, network, tag) ==
    DeleteEmptyKeys(ComposeServiceRaw(def, folder, network, tag))

\* BuildComposeFile.run converts a service; a loaded service may also be
\* converted as it is.
ServiceConvert ==
    /\ sv_pc \in {"loaded", "registered"}
    /\ sv_compose' = ConvertToComposeService(sv_def, sv_folder, Network, DefaultTag)
    /\ sv_pc' = "converted"
    /\ UNCHANGED <<sv_def, sv_folder, sv_args, sv_error, sv_call, sv_ncalls>>

ServiceNext ==
    /\ \/ ServiceLoad
       \/ ServiceSetMetadata
       \/ ServiceGenerate
       \/ ServiceRegister
       \/ ServiceConvert
    /\ UNCHANGED <<pl_vars, tg_vars, mf_vars, bd_vars, tc_vars, ext_vars>>

SpecService == ServiceInit /\ [][ServiceNext]_vars

\* ------------------------------------------------------------------------
\* Properties of service definitions and their conversion
\* ------------------------------------------------------------------------
\* C11: set_metadata(key, value) with override=false on a service whose
\* metadata already has the key raises and leaves the metadata unchanged;
\* an existing metadata value changes only through override=true.
C11_MetadataAdditiveOnly ==
    (sv_pc = "loaded" /\ sv_call.made /\ sv_call.key \in DOMAIN sv_call.before) =>
        /\ ~sv_call.override => (sv_call.raised /\ Metadata(sv_def) = sv_call.before)
        /\ Metadata(sv_def)[sv_call.key] # sv_call.before[sv_call.key] => sv_call.override

\* The routes and the port the entrypoint rule gives a service: the string
\* itself as the sole route, the routes of the object form, or /{name}.
C13_Routes(def) ==
    IF "entrypoint" \notin DOMAIN def THEN << <<"/">> \o def["name"] >>
    ELSE IF def["entrypoint"].type = "str" THEN << def["entrypoint"].value >>
    ELSE def["entrypoint"].value["routes"]
C13_Port(def) ==
    IF "entrypoint" \in DOMAIN def /\ def["entrypoint"].type = "dict"
       THEN DictGet(def["entrypoint"].value, "listens-on", 80)
       ELSE 80

\* C13: every service handed to register_service is registered, its rule
\* label is one PathPrefix clause per route of the entrypoint rule (a string
\* entrypoint or the default /{name} being the sole route) and its port
\* label is listens-on, 80 when not given.
C13_EntrypointRule ==
    sv_pc \in {"registered", "raised"} =>
        /\ sv_pc = "registered"
        /\ IF Len(C13_Routes(sv_def)) = 0
              THEN RuleKey(sv_def["name"]) \notin DOMAIN Metadata(sv_def)
              ELSE /\ RuleKey(sv_def["name"]) \in DOMAIN Metadata(sv_def)
                   /\ Metadata(sv_def)[RuleKey(sv_def["name"])] = JoinRoutes(C13_Routes(sv_def))
        /\ PortKey(sv_def["name"]) \in DOMAIN Metadata(sv_def)
        /\ Metadata(sv_def)[PortKey(sv_def["name"])] = C13_Port(sv_def)

\* ------------------------------------------------------------------------
\* TraefikConfig on its own: setters in any order, then to_labels
\* ------------------------------------------------------------------------
MaxRoutes == 2

\* The routes, ports and services handed to the setters; the routes and
\* the port 8080 are those of the entrypoint tests, api@internal the service
\* the provider attaches its own router to.
ConfigRoutes == { <<"/foo">>, <<"/bar">>, <<"/">> }
ConfigPorts == {0, 80, 8080}
ConfigServices == {"api@internal"}

\* config = TraefikConfig()
TraefikConfigInit ==
    /\ tc_cfg = TraefikConfigNew
    /\ tc_pc = "config"
    /\ tc_added = <<>>
    /\ tc_name = <<>>
    /\ tc_labels = EmptyDict
    /\ PipelineIdle
    /\ TargetIdle
    /\ ManifestIdle
    /\ BuildIdle
    /\ ServiceIdle
    /\ ExtIdle

\* config.add_route(route); a route already added raises ValueError.
ConfigAddRoute ==
    /\ tc_pc = "config"
    /\ Len(tc_added) < MaxRoutes
    /\ \E route \in ConfigRoutes :
          LET r == AddRoute(tc_cfg, route) IN
          IF r.error # None
             THEN tc_pc' = "raised" /\ tc_cfg' = r.cfg /\ UNCHANGED tc_added
             ELSE tc_cfg' = r.cfg /\ tc_added' = Append(tc_added, route) /\ UNCHANGED tc_pc
    /\ UNCHANGED <<tc_name, tc_labels>>

\* config.set_port(port)
ConfigSetPort ==
    /\ tc_pc = "config"
    /\ \E port \in ConfigPorts : tc_cfg' = SetPort(tc_cfg, port)
    /\ UNCHANGED <<tc_pc, tc_added, tc_name, tc_labels>>

\* config.set_enable_tls(enable_tls)
ConfigSetEnableTls ==
    /\ tc_pc = "config"
    /\ \E enable_tls \in BOOLEAN : tc_cfg' = SetEnableTls(tc_cfg, enable_tls)
    /\ UNCHANGED <<tc_pc, tc_added, tc_name, tc_labels>>

\* config.set_service(service)
ConfigSetService ==
    /\ tc_pc = "config"
    /\ \E service \in ConfigServices : tc_cfg' = SetService(tc_cfg, service)
    /\ UNCHANGED <<tc_pc, tc_added, tc_name, tc_labels>>

\* config.to_labels(name)
ConfigToLabels ==
    /\ tc_pc = "config"
    /\ \E name \in ServiceNames :
          /\ tc_name' = name
          /\ tc_labels' = ToLabels(tc_cfg, name)
    /\ tc_pc' = "labels"
    /\ UNCHANGED <<tc_cfg, tc_added>>

TraefikConfigNext ==
    /\ \/ ConfigAddRoute
       \/ ConfigSetPort
       \/ ConfigSetEnableTls
       \/ ConfigSetService
       \/ ConfigToLabels
    /\ UNCHANGED <<pl_vars, tg_vars, mf_vars, bd_vars, sv_vars, ext_vars>>

SpecTraefikConfig == TraefikConfigInit /\ [][TraefikConfigNext]_vars

\* The rule label of the labels returned is the clauses of the routes
\* added, joined in the order they were added.
C14_RuleInOrder ==
    /\ RuleKey(tc_name) \in DOMAIN tc_labels
    /\ tc_labels[RuleKey(tc_name)] = JoinRoutes(tc_added)

\* C14 as stated: after add_route of pairwise distinct routes r1..rn (n >= 1)
\* and set_port(p), to_labels(name) maps the rule key to the clauses joined
\* with " || " in the order added and the port key to p.
C14_RuleAndPort ==
    (tc_pc = "labels" /\ Len(tc_added) >= 1 /\ Len(tc_cfg.port) > 0) =>
        /\ C14_RuleInOrder
        /\ PortKey(tc_name) \in DOMAIN tc_labels
        /\ tc_labels[PortKey(tc_name)] = tc_cfg.port[1]

\* C14 amended: the rule label is as stated; the port key maps to p when
\* p is not 0, and is absent when p is 0.
C14_RuleAndNonZeroPort ==
    (tc_pc = "labels" /\ Len(tc_added) >= 1 /\ Len(tc_cfg.port) > 0) =>
        /\ C14_RuleInOrder
        /\ IF tc_cfg.port[1] # 0
              THEN /\ PortKey(tc_name) \in DOMAIN tc_labels
                   /\ tc_labels[PortKey(tc_name)] = tc_cfg.port[1]
              ELSE PortKey(tc_name) \notin DOMAIN tc_labels

\* /foo then /bar were added and the port set to 8080, as in the entrypoint
\* test, and the labels were generated.
C14_Witness ==
    /\ tc_pc = "labels"
    /\ tc_added = << <<"/foo">>, <<"/bar">> >>
    /\ tc_cfg.port = <<8080>>
    /\ tc_labels[RuleKey(tc_name)]
          = <<"PathPrefix(", Backquote, "/foo", Backquote, ")", " || ",
              "PathPrefix(", Backquote, "/bar", Backquote, ")">>

\* The port mappings a service definition exposes, as Compose writes them.
C15_Ports(def) ==
    {PortStr(Items(def, "service-ports")[i]) : i \in 1..Len(Items(def, "service-ports"))}

\* C15: with enable-tls true every service passed to register_service gets
\* the label traefik.http.routers.{name}.tls = true and the router's own
\* service exposes 443:443 in addition to 80:80; with enable-tls false or
\* absent no service has the .tls key and the router exposes only 80:80.
C15_TlsLabelling ==
    sv_pc \in {"registered", "raised"} =>
        LET enable_tls == DictGet(sv_args, "enable-tls", FALSE)
            labels == Metadata(sv_def)
        IN  /\ enable_tls => /\ TlsKey(sv_def["name"]) \in DOMAIN labels
                             /\ labels[TlsKey(sv_def["name"])] = TRUE
            /\ ~enable_tls => TlsKey(sv_def["name"]) \notin DOMAIN labels
            /\ sv_def["name"] = <<DEFAULT_SERVICE_NAME>> =>
                  C15_Ports(sv_def) = {<<80, ":", 80>>}
                      \cup (IF enable_tls THEN {<<443, ":", 443>>} ELSE {})

\* The router's own service has been converted for the Compose file.
C16_RouterConverted == sv_pc = "converted" /\ sv_def["name"] = <<DEFAULT_SERVICE_NAME>>

\* Dashboard or API routing is enabled in the router's arguments.
C16_ApiEnabled ==
    DictGet(sv_args, "enable-dashboard", FALSE) \/ DictGet(sv_args, "enable-api", FALSE)

\* The labels of the converted service have the api@internal marker.
C16_HasApiMarker ==
    /\ ServiceKey(<<DEFAULT_SERVICE_NAME>>) \in DOMAIN sv_compose["labels"]
    /\ sv_compose["labels"][ServiceKey(<<DEFAULT_SERVICE_NAME>>)] = "api@internal"

\* C16 as stated: the labels of the router's own service carry
\* traefik.enable = true when neither dashboard nor API is enabled, the
\* api@internal service label when one is, and never both.
C16_ExactlyOneMarker ==
    C16_RouterConverted =>
        /\ "labels" \in DOMAIN sv_compose
        /\ IF C16_ApiEnabled
              THEN C16_HasApiMarker /\ EnableKey \notin DOMAIN sv_compose["labels"]
              ELSE /\ EnableKey \in DOMAIN sv_compose["labels"]
                   /\ sv_compose["labels"][EnableKey] = TRUE
                   /\ ServiceKey(<<DEFAULT_SERVICE_NAME>>) \notin DOMAIN sv_compose["labels"]

\* C16 amended: the labels always carry traefik.enable = true, and carry
\* the api@internal service label exactly when dashboard or API routing is
\* enabled.
C16_EnableAlwaysApiWhenEnabled ==
    C16_RouterConverted =>
        /\ "labels" \in DOMAIN sv_compose
        /\ EnableKey \in DOMAIN sv_compose["labels"]
        /\ sv_compose["labels"][EnableKey] = TRUE
        /\ IF C16_ApiEnabled
              THEN C16_HasApiMarker
              ELSE ServiceKey(<<DEFAULT_SERVICE_NAME>>) \notin DOMAIN sv_compose["labels"]

\* A router with only the API enabled was generated, registered and
\* converted: its labels have both markers.
C16_Witness ==
    /\ C16_RouterConverted
    /\ "enable-api" \in DOMAIN sv_args
    /\ "enable-dashboard" \notin DOMAIN sv_args
    /\ C16_HasApiMarker
    /\ sv_compose["labels"][EnableKey] = TRUE

\* C17: the converted service has no top-level key with an empty value;
\* environment, ports, volumes and labels are present exactly when the
\* service has at least one such element, while container_name, image,
\* restart and networks are always present.
C17_NoEmptyCollections ==
    sv_pc = "converted" =>
        /\ \A key \in DOMAIN sv_compose : DOMAIN sv_compose[key] # {}
        /\ {"container_name", "image", "restart", "networks"} \subseteq DOMAIN sv_compose
        /\ "environment" \in DOMAIN sv_compose <=> Len(Items(sv_def, "environment")) > 0
        /\ "ports" \in DOMAIN sv_compose <=> Len(Items(sv_def, "service-ports")) > 0
        /\ "volumes" \in DOMAIN sv_compose
              <=> Len(Items(sv_def, "files")) + Len(Items(sv_def, "volumes")) > 0
        /\ "labels" \in DOMAIN sv_compose <=> DOMAIN Metadata(sv_def) # {}

\* A service without environment, ports, files, volumes and metadata was
\* converted: none of the four keys is in its dict.
C17_Witness ==
    /\ sv_pc = "converted"
    /\ Len(Items(sv_def, "environment")) = 0
    /\ DOMAIN Metadata(sv_def) = {}
    /\ DOMAIN sv_compose \cap {"environment", "ports", "volumes", "labels"} = {}

\* C18: a converted service with an image uses it verbatim and has no
\* build key; one without has the image {name}:custom and a build whose
\* context is the name of the service's own folder, with args equal to the
\* declared build-args when there are any and no args key when there are
\* none.
C18_PulledOrBuilt ==
    sv_pc = "converted" =>
        IF "image" \in DOMAIN sv_def
           THEN /\ sv_compose["image"] = sv_def["image"]
                /\ "build" \notin DOMAIN sv_compose
           ELSE /\ sv_compose["image"] = sv_def["name"] \o <<":", "custom">>
                /\ "build" \in DOMAIN sv_compose
                /\ sv_compose["build"]["context"] = <<PathName(sv_folder[1])>>
                /\ IF "build-args" \in DOMAIN sv_def /\ DOMAIN sv_def["build-args"] # {}
                      THEN sv_compose["build"]["args"] = sv_def["build-args"]
                      ELSE "args" \notin DOMAIN sv_compose["build"]

\* The service of the build-args test was converted: no image, build-args
\* {foo: 1, bar: 2}.
C18_Witness ==
    /\ sv_pc = "converted"
    /\ "image" \notin DOMAIN sv_def
    /\ "build" \in DOMAIN sv_compose
    /\ "args" \in DOMAIN sv_compose["build"]
    /\ sv_compose["build"]["args"] = ("foo" :> 1) @@ ("bar" :> 2)
    /\ sv_compose["build"]["context"] = <<"srv-dir">>

C21_Recognized(json) ==
    SelectSeq(json["contents"],
              LAMBDA item : "type" \in DOMAIN item /\ item["type"] \in {"docker-compose", "image"})

\* The file found is valid against the schema, has an item of a type that
\* is neither docker-compose nor image, and every recognized item names the
\* file its type requires.
C21_HasUnknownType ==
    /\ mf_file # NoFile
    /\ SchemaViolations(mf_file) = {}
    /\ \E i \in DOMAIN mf_file["contents"] :
          mf_file["contents"][i]["type"] \notin {"docker-compose", "image"}
    /\ LoadItems(C21_Recognized(mf_file)).error = None

\* The manifest returned holds exactly the recognized entries, in file order.
C21_RecognizedLoaded ==
    /\ mf_pc = "read"
    /\ mf_loaded.entries = LoadItems(C21_Recognized(mf_file)).entries

\* C21: load does not abort because of an entry whose type is neither
\* docker-compose nor image; the entry is skipped with a recorded warning
\* and the manifest returned holds exactly the recognized entries, in file
\* order.
C21_UnknownTypeSkippedWithWarning ==
    (mf_pc \in {"read", "raised"} /\ C21_HasUnknownType) =>
        /\ C21_RecognizedLoaded
        /\ Len(mf_warnings) > 0

\* ------------------------------------------------------------------------
\* ServiceGroupDefinition as a collection (services.py)
\* ------------------------------------------------------------------------
MaxPasses == 2
MaxMembers == 3

\* The folder of a group and the names its services list may declare.
GroupFolder == <<"/", "work", "group">>
MemberNames == {"complex-entrypoint", "default", "string-entrypoint"}

\* The services lists considered: every list of pairwise distinct member
\* names, the empty one included.
ServicesLists ==
    {list \in SeqsUpTo(MemberNames, MaxMembers) :
        \A i, j \in DOMAIN list : i # j => list[i] # list[j]}

\* The names asked for with `in`: the member names and one that no group
\* declares.
AskedNames == MemberNames \cup {"absent"}

\* The services the generator yields back to front.
IterYieldReversed(group, i) ==
    [folder |-> Append(group.folder, group.services[Len(group.services) - i])]

\* yield ServiceDefinition(folder=self.folder / name), for the name at
\* position i (from 0) of self._definition['services'].
IterYield(group, i) ==
    [folder |-> Append(group.folder, group.services[i + 1])]

\* len(group): the number of services the group declares.
GroupLen(group) == Len(group.services)

\* name in group: whether the group declares a service of that name.
GroupContains(group, name) == \E i \in DOMAIN group.services : group.services[i] = name

GroupInit ==
    /\ gp_group = EmptyDict
    /\ gp_pc = "new"
    /\ gp_pass = 0
    /\ gp_i = 0
    /\ gp_seen = <<>>
    /\ gp_len = <<>>
    /\ gp_has = EmptyDict
    /\ CoreIdle
    /\ ImageBuildIdle
    /\ ForgeIdle
    /\ ComposeFileIdle
    /\ RaceIdle
    /\ DisplayIdle

\* ServiceGroupDefinition(folder)
GroupLoad ==
    /\ gp_pc = "new"
    /\ \E services \in ServicesLists :
          gp_group' = [folder |-> GroupFolder, services |-> services]
    /\ gp_pc' = "ready"
    /\ UNCHANGED <<gp_pass, gp_i, gp_seen, gp_len, gp_has>>

\* iter(group): a new generator, positioned before the first name.
GroupIterStart ==
    /\ gp_pc = "ready"
    /\ gp_pass < MaxPasses
    /\ gp_pass' = gp_pass + 1
    /\ gp_i' = 0
    /\ gp_seen' = Append(gp_seen, <<>>)
    /\ gp_pc' = "iterating"
    /\ UNCHANGED <<gp_group, gp_len, gp_has>>

\* next(generator): the service of the next name, or the end of the loop.
GroupIterNext ==
    /\ gp_pc = "iterating"
    /\ IF gp_i < Len(gp_group.services)
          THEN /\ gp_seen' = [gp_seen EXCEPT ![gp_pass] =
                                 Append(@, IterYield(gp_group, gp_i))]
               /\ gp_i' = gp_i + 1
               /\ UNCHANGED gp_pc
          ELSE /\ gp_pc' = "ready"
               /\ UNCHANGED <<gp_i, gp_seen>>
    /\ UNCHANGED <<gp_group, gp_pass, gp_len, gp_has>>

\* len(group)
GroupAskLen ==
    /\ gp_pc = "ready"
    /\ gp_len = <<>>
    /\ gp_len' = <<GroupLen(gp_group)>>
    /\ UNCHANGED <<gp_group, gp_pc, gp_pass, gp_i, gp_seen, gp_has>>

\* name in group
GroupAskContains ==
    /\ gp_pc = "ready"
    /\ \E name \in AskedNames \ DOMAIN gp_has :
          gp_has' = (name :> GroupContains(gp_group, name)) @@ gp_has
    /\ UNCHANGED <<gp_group, gp_pc, gp_pass, gp_i, gp_seen, gp_len>>

GroupNext ==
    /\ \/ GroupLoad
       \/ GroupIterStart
       \/ GroupIterNext
       \/ GroupAskLen
       \/ GroupAskContains
    /\ UNCHANGED <<pl_vars, tg_vars, mf_vars, bd_vars, sv_vars, tc_vars>>
    /\ UNCHANGED <<im_vars, fg_vars, cf_vars, rc_vars, ds_vars>>

SpecGroup == GroupInit /\ [][GroupNext]_vars

\* The names of the folders of the services an iteration has yielded.
C22_Names(pass) == [i \in 1..Len(pass) |-> PathName(pass[i].folder)]

MaxPayloads == 2

\* The payloads a decoded build response is made of: a 'stream' field with
\* output of the daemon, an 'error' field when the build failed, both, or
\* neither (status and aux payloads).  The daemon sends no empty strings.
Payloads ==
    [stream : Opt({"Step 1/1 \n"}), error : Opt({"build failed"})]

\* str.strip() on the outputs above
Strip(text) == IF text = "Step 1/1 \n" THEN "Step 1/1" ELSE text

\* The body of the for-loop of _ImageBuilder.build, for one payload: the
\* reporter calls it makes and whether it raises ServiceImageBuildError.
ProcessPayloadNoRaise(service, item) ==
    [log |-> (IF item.stream # <<>>
                 THEN <<[call |-> "log_output", service |-> service,
                         text |-> Strip(item.stream[1])]>>
                 ELSE <<>>)
             \o (IF item.error # <<>>
                    THEN <<[call |-> "log_error", service |-> service,
                            text |-> item.error[1]]>>
                    ELSE <<>>),
     raised |-> FALSE]

ProcessPayload(service, item) ==
    [log |-> (IF item.stream # <<>>
                 THEN <<[call |-> "log_output", service |-> service,
                         text |-> Strip(item.stream[1])]>>
                 ELSE <<>>)
             \o (IF item.error # <<>>
                    THEN <<[call |-> "log_error", service |-> service,
                            text |-> item.error[1]]>>
                    ELSE <<>>),
     raised |-> item.error # <<>>]

\* The services of the group the target builds.
ImageServices == GroupDef(im_inv.paths[1]).services

ImageBuildInit ==
    /\ im_pc = "new"
    /\ im_inv = [target |-> "none", paths |-> <<>>, options |-> <<>>, tag |-> <<>>,
                 build_number |-> <<>>, version |-> <<>>]
    /\ im_fs = SourceTree
    /\ im_stage = 0
    /\ im_svc = 0
    /\ im_npay = 0
    /\ im_calls = <<>>
    /\ im_items = <<>>
    /\ im_log = <<>>
    /\ im_error = None
    /\ CoreIdle
    /\ GroupIdle
    /\ ForgeIdle
    /\ ComposeFileIdle
    /\ RaceIdle
    /\ DisplayIdle

\* ImageTarget.__init__, for a command line naming one group: the stage
\* objects are constructed, and BuildDockerImages creates the Docker API
\* client, which raises ClientConnectionError when there is no daemon.
ImageTargetConstruct ==
    /\ im_pc = "new"
    /\ \E a \in InvArgs({"image"}) : \E docker_up \in BOOLEAN :
          /\ Len(a.paths) = 1
          /\ ~CheckMutuallyExclusiveArgs(a.tag, a.build_number)
          /\ im_inv' = [a EXCEPT !.version = GenerateVersion(a.tag, a.build_number)]
          /\ IF ~HasOption(a, "skip-build") /\ ~docker_up
                THEN im_pc' = "raised" /\ im_error' = "ClientConnectionError"
                ELSE im_pc' = "target" /\ im_error' = None
    /\ UNCHANGED <<im_fs, im_stage, im_svc, im_npay, im_calls, im_items, im_log>>

\* ImageTarget.build up to Pipeline.run
ImageTargetBuild ==
    /\ im_pc = "target"
    /\ LET r == ImageTargetPrepare(im_fs, OutputPath(im_inv.target)) IN
          /\ im_fs' = r.fs
          /\ IF r.error # None
                THEN im_pc' = "raised" /\ im_error' = r.error /\ UNCHANGED im_stage
                ELSE im_pc' = "pipeline" /\ im_stage' = 1 /\ UNCHANGED im_error
    /\ UNCHANGED <<im_inv, im_svc, im_npay, im_calls, im_items, im_log>>

\* Pipeline.run reaches CopyServiceResources or GenerateManifestFile.
ImagePipelineStage ==
    /\ im_pc = "pipeline"
    /\ im_stage <= Len(StagesOf(im_inv))
    /\ StagesOf(im_inv)[im_stage] # "BuildDockerImages"
    /\ LET r == RunStage(StagesOf(im_inv)[im_stage], im_fs, im_inv,
                         GroupDef(im_inv.paths[1])) IN
          /\ im_fs' = r.fs
          /\ IF r.error # None
                THEN im_pc' = "raised" /\ im_error' = r.error /\ UNCHANGED im_stage
                ELSE im_stage' = im_stage + 1 /\ UNCHANGED <<im_pc, im_error>>
    /\ UNCHANGED <<im_inv, im_svc, im_npay, im_calls, im_items, im_log>>

\* Pipeline.run reaches BuildDockerImages: run() starts its for-loop.
ImageDockerStageStart ==
    /\ im_pc = "pipeline"
    /\ im_stage <= Len(StagesOf(im_inv))
    /\ StagesOf(im_inv)[im_stage] = "BuildDockerImages"
    /\ im_pc' = "building"
    /\ im_svc' = 1
    /\ UNCHANGED <<im_inv, im_fs, im_stage, im_npay, im_calls, im_items, im_log, im_error>>

\* _ImageBuilder.build up to the for-loop over the response: the build API
\* is called for the next service of the group; the call itself fails with
\* APIError when the daemon rejects the request.
ImageBuilderBuild ==
    /\ im_pc = "building"
    /\ im_svc <= Len(ImageServices)
    /\ im_calls' = Append(im_calls, ImageServices[im_svc])
    /\ im_npay' = 0
    /\ \E accepted \in BOOLEAN :
          IF accepted THEN im_pc' = "response" /\ UNCHANGED im_error
          ELSE im_pc' = "raised" /\ im_error' = "APIError"
    /\ UNCHANGED <<im_inv, im_fs, im_stage, im_svc, im_items, im_log>>

\* One iteration of `for item in response`.
ImagePayload ==
    /\ im_pc = "response"
    /\ im_npay < MaxPayloads
    /\ \E item \in Payloads :
          LET r == ProcessPayload(ImageServices[im_svc], item) IN
          /\ im_items' = Append(im_items, [service |-> ImageServices[im_svc],
                                           ncalls |-> Len(im_calls),
                                           item |-> item])
          /\ im_log' = im_log \o r.log
          /\ IF r.raised
                THEN /\ im_pc' = "raised"
                     /\ im_error' = "ServiceImageBuildError"
                     /\ UNCHANGED im_npay
                ELSE /\ im_npay' = im_npay + 1
                     /\ UNCHANGED <<im_pc, im_error>>
    /\ UNCHANGED <<im_inv, im_fs, im_stage, im_svc, im_calls>>

\* The response is exhausted: build returns and the for-loop of run moves
\* to the next service.
ImageResponseEnd ==
    /\ im_pc = "response"
    /\ im_pc' = "building"
    /\ im_svc' = im_svc + 1
    /\ UNCHANGED <<im_inv, im_fs, im_stage, im_npay, im_calls, im_items, im_log, im_error>>

\* The for-loop of BuildDockerImages.run is over.
ImageDockerStageEnd ==
    /\ im_pc = "building"
    /\ im_svc > Len(ImageServices)
    /\ im_pc' = "pipeline"
    /\ im_stage' = im_stage + 1
    /\ UNCHANGED <<im_inv, im_fs, im_svc, im_npay, im_calls, im_items, im_log, im_error>>

\* Pipeline.run returns.
ImagePipelineEnd ==
    /\ im_pc = "pipeline"
    /\ im_stage > Len(StagesOf(im_inv))
    /\ im_pc' = "done"
    /\ UNCHANGED <<im_inv, im_fs, im_stage, im_svc, im_npay, im_calls, im_items, im_log,
                   im_error>>

ImageBuildNext ==
    /\ \/ ImageTargetConstruct
       \/ ImageTargetBuild
       \/ ImagePipelineStage
       \/ ImageDockerStageStart
       \/ ImageBuilderBuild
       \/ ImagePayload
       \/ ImageResponseEnd
       \/ ImageDockerStageEnd
       \/ ImagePipelineEnd
    /\ UNCHANGED <<pl_vars, tg_vars, mf_vars, bd_vars, sv_vars, tc_vars>>
    /\ UNCHANGED <<gp_vars, fg_vars, cf_vars, rc_vars, ds_vars>>

SpecImageBuild == ImageBuildInit /\ [][ImageBuildNext]_vars

\* C23: the Docker build API is called for the services of the group one
\* at a time and in group order, every payload processed belongs to the
\* build started last; a payload with an error field is the last payload
\* processed and the last build started is the one it belongs to, the
\* target having raised ServiceImageBuildError; with skip-build the build
\* API is never called.
C23_OneAtATimeStopAtFirstError ==
    im_pc \notin {"off", "new"} =>
        /\ im_inv.paths # <<>> => IsPrefix(im_calls, ImageServices)
        /\ HasOption(im_inv, "skip-build") => im_calls = <<>>
        /\ \A i \in 1..Len(im_items) :
              /\ im_items[i].service = im_calls[im_items[i].ncalls]
              /\ \A j \in 1..Len(im_items) :
                    i < j => im_items[i].ncalls <= im_items[j].ncalls
              /\ im_items[i].item.error # <<>> =>
                    /\ i = Len(im_items)
                    /\ im_items[i].ncalls = Len(im_calls)
                    /\ im_pc = "raised"
                    /\ im_error = "ServiceImageBuildError"
        /\ \A i \in 1..Len(im_log) :
              im_log[i].call = "log_error" => i = Len(im_log)

\* The first service of a group of two has failed after a payload of output.
C23_Witness ==
    /\ im_pc = "raised"
    /\ im_error = "ServiceImageBuildError"
    /\ ImageServices = <<"s1", "s2">>
    /\ im_calls = <<"s1">>
    /\ Len(im_items) = 2
    /\ im_items[1].item.stream # <<>>
    /\ im_items[2].item.error # <<>>

\* ------------------------------------------------------------------------
\* ForgeClient (forge/client.py)
\* ------------------------------------------------------------------------
MaxAuthCalls == 1

\* The `url` arguments considered.
ForgeUrls ==
    {"https://localhost", "HTTPS://git.example.com/", "http://localhost",
     "localhost", "localhost:999999", "ssh://git@localhost"}

\* urllib3.util.parse_url on the arguments above: a port out of range is a
\* LocationParseError (a LocationValueError), a missing scheme is None, the
\* scheme is lower-cased.
ParseUrl(url) ==
    IF url = "localhost:999999" THEN [ok |-> FALSE, scheme |-> None]
    ELSE IF url = "localhost" THEN [ok |-> TRUE, scheme |-> None]
    ELSE IF url = "http://localhost" THEN [ok |-> TRUE, scheme |-> "http"]
    ELSE IF url = "ssh://git@localhost" THEN [ok |-> TRUE, scheme |-> "ssh"]
    ELSE [ok |-> TRUE, scheme |-> "https"]

\* ForgeAuth dictionaries; a key that is absent is <<>>.
ForgeAuth(auth_type, username, password, api_token) ==
    [auth_type |-> auth_type, username |-> username, password |-> password,
     api_token |-> api_token]

AuthNone == ForgeAuth("none", <<>>, <<>>, <<>>)

\* The contents auth.json may have when the client is constructed: what a
\* client has stored, or a file edited by hand that lacks a key.
StoredAuth ==
    {AuthNone,
     ForgeAuth("basic", <<"abc">>, <<"def">>, <<>>),
     ForgeAuth("basic", <<"abc">>, <<>>, <<>>),
     ForgeAuth("token", <<"test">>, <<>>, <<"123456">>),
     ForgeAuth("token", <<"test">>, <<>>, <<>>)}

\* The application folders the client may be constructed on: auth.json is in
\* the provider folder, the provider folder and certs/ in the app folder.
AppFolders ==
    {f \in [app : BOOLEAN, provider : BOOLEAN, certs : BOOLEAN,
            auth : {[state |-> "absent", data |-> <<>>]}
                   \cup {[state |-> st, data |-> <<d>>] :
                            st \in {"file", "unreadable"}, d \in StoredAuth}] :
        /\ f.provider => f.app
        /\ f.certs => f.app
        /\ f.auth.state # "absent" => f.provider}

\* The checks of the `url` argument in __init__: the exception raised, or
\* None.
CheckUrlParseOnly(url) ==
    IF ~ParseUrl(url).ok THEN "ForgeUrlInvalidError" ELSE None

CheckUrl(url) ==
    IF ~ParseUrl(url).ok THEN "ForgeUrlInvalidError"
    ELSE IF ~(ParseUrl(url).scheme = "https") THEN "ForgeUrlInvalidError"
    ELSE None

\* _update_headers
UpdateHeaders(auth) ==
    IF auth.auth_type = "basic" THEN
        IF auth.username = <<>> \/ auth.password = <<>>
           THEN [error |-> "ForgeApiOperationFailed", headers |-> <<>>]
           ELSE [error |-> None,
                 headers |-> <<"user-agent", "basic", auth.username[1], auth.password[1]>>]
    ELSE IF auth.auth_type = "none" THEN
        [error |-> None, headers |-> <<"user-agent">>]
    ELSE
        IF auth.api_token = <<>>
           THEN [error |-> "ForgeApiOperationFailed", headers |-> <<>>]
           ELSE [error |-> None, headers |-> <<"user-agent", "token", auth.api_token[1]>>]

\* _resolve_certs
ResolveCerts(f) == IF f.certs THEN "app-ca-bundle" ELSE "certifi"

ForgeInit ==
    /\ fg_pc = "new"
    /\ fg_url \in ForgeUrls
    /\ fg_fs \in AppFolders
    /\ fg_fs0 = fg_fs
    /\ fg_auth = <<>>
    /\ fg_headers = <<>>
    /\ fg_certs = ""
    /\ fg_nset = 0
    /\ fg_error = None
    /\ CoreIdle
    /\ GroupIdle
    /\ ImageBuildIdle
    /\ ComposeFileIdle
    /\ RaceIdle
    /\ DisplayIdle

\* __init__ up to the checks of the URL
ForgeCheckUrl ==
    /\ fg_pc = "new"
    /\ IF CheckUrl(fg_url) # None
          THEN fg_pc' = "raised" /\ fg_error' = CheckUrl(fg_url)
          ELSE fg_pc' = "parsed" /\ UNCHANGED fg_error
    /\ UNCHANGED <<fg_url, fg_fs, fg_fs0, fg_auth, fg_headers, fg_certs, fg_nset>>

\* __init__: the provider folder is created when missing (parents=True)
ForgeMakeFolder ==
    /\ fg_pc = "parsed"
    /\ fg_fs' = IF ~fg_fs.provider
                   THEN [fg_fs EXCEPT !.app = TRUE, !.provider = TRUE]
                   ELSE fg_fs
    /\ fg_pc' = "folder"
    /\ UNCHANGED <<fg_url, fg_fs0, fg_auth, fg_headers, fg_certs, fg_nset, fg_error>>

\* _load_auth_info
ForgeLoadAuth ==
    /\ fg_pc = "folder"
    /\ IF fg_fs.auth.state = "file"
          THEN /\ fg_auth' = fg_fs.auth.data
               /\ fg_pc' = "auth"
               /\ UNCHANGED <<fg_fs, fg_error>>
       ELSE IF fg_fs.auth.state = "absent"
          THEN /\ fg_auth' = <<AuthNone>>
               /\ fg_fs' = [fg_fs EXCEPT !.auth = [state |-> "file", data |-> <<AuthNone>>]]
               /\ fg_pc' = "auth"
               /\ UNCHANGED fg_error
       ELSE /\ fg_pc' = "raised"
            /\ fg_error' = "CannotObtainForgeAuthError"
            /\ UNCHANGED <<fg_fs, fg_auth>>
    /\ UNCHANGED <<fg_url, fg_fs0, fg_headers, fg_certs, fg_nset>>

\* __init__: _update_headers
ForgeUpdateHeaders ==
    /\ fg_pc = "auth"
    /\ LET r == UpdateHeaders(fg_auth[1]) IN
          IF r.error # None
             THEN fg_pc' = "raised" /\ fg_error' = r.error /\ UNCHANGED fg_headers
             ELSE fg_pc' = "headers" /\ fg_headers' = r.headers /\ UNCHANGED fg_error
    /\ UNCHANGED <<fg_url, fg_fs, fg_fs0, fg_auth, fg_certs, fg_nset>>

\* __init__: _resolve_certs and the connection pool
ForgeResolveCerts ==
    /\ fg_pc = "headers"
    /\ fg_certs' = ResolveCerts(fg_fs)
    /\ fg_pc' = "ready"
    /\ UNCHANGED <<fg_url, fg_fs, fg_fs0, fg_auth, fg_headers, fg_nset, fg_error>>

\* set_basic_auth / set_token_auth on the constructed client
ForgeSetAuth(auth) ==
    /\ fg_pc = "ready"
    /\ fg_nset < MaxAuthCalls
    /\ fg_nset' = fg_nset + 1
    /\ fg_auth' = <<auth>>
    /\ fg_headers' = UpdateHeaders(auth).headers
    /\ fg_fs' = [fg_fs EXCEPT !.auth = [state |-> "file", data |-> <<auth>>]]
    /\ UNCHANGED <<fg_pc, fg_url, fg_fs0, fg_certs, fg_error>>

ForgeSetBasicAuth == ForgeSetAuth(ForgeAuth("basic", <<"abc">>, <<"def">>, <<>>))

ForgeSetTokenAuth == ForgeSetAuth(ForgeAuth("token", <<"test">>, <<>>, <<"123456">>))

ForgeNext ==
    /\ \/ ForgeCheckUrl
       \/ ForgeMakeFolder
       \/ ForgeLoadAuth
       \/ ForgeUpdateHeaders
       \/ ForgeResolveCerts
       \/ ForgeSetBasicAuth
       \/ ForgeSetTokenAuth
    /\ UNCHANGED <<pl_vars, tg_vars, mf_vars, bd_vars, sv_vars, tc_vars>>
    /\ UNCHANGED <<gp_vars, im_vars, cf_vars, rc_vars, ds_vars>>

SpecForge == ForgeInit /\ [][ForgeNext]_vars

\* The url argument cannot be parsed or its scheme is not https.
C24_InvalidUrl ==
    ~ParseUrl(fg_url).ok \/ ParseUrl(fg_url).scheme # "https"

\* C24: a client constructed with a URL that cannot be parsed or is not
\* https fails with ForgeUrlInvalidError and nothing in the application
\* folder has changed: no provider folder created, no auth.json written.
C24_InvalidUrlLeavesFolderUntouched ==
    (fg_pc # "off" /\ C24_InvalidUrl) =>
        /\ fg_pc \in {"new", "raised"}
        /\ fg_pc = "raised" => fg_error = "ForgeUrlInvalidError"
        /\ fg_fs = fg_fs0

\* The construction with 'localhost' has failed on an application folder
\* that has no provider folder.
C24_Witness ==
    /\ fg_pc = "raised"
    /\ fg_url = "localhost"
    /\ ~fg_fs0.provider
    /\ ~fg_fs.provider
    /\ fg_fs.auth.state = "absent"

\* ------------------------------------------------------------------------
\* BuildComposeFile.run (targets/compose.py)
\* ------------------------------------------------------------------------
MaxGroupSize == 2

\* The members a group may have: services with an image, with or without
\* an entrypoint and resources.
ComposeMembers ==
    {d \in ServiceDefinitions :
        /\ "image" \in DOMAIN d
        /\ DOMAIN d \cap {"build-args", "healthcheck", "metadata"} = {}}

\* The service groups rendered: a known or unknown routing provider, its
\* arguments, and members with unique names, none named like the router's
\* own service.
ComposeGroups ==
    {g \in [provider : {"traefik", "nginx"},
            args : {EmptyDict, ("enable-tls" :> TRUE) @@ ("enable-dashboard" :> TRUE)},
            members : UNION {[1..n -> ComposeMembers] : n \in 1..MaxGroupSize}] :
        \A i, j \in 1..Len(g.members) :
            i # j => g.members[i]["name"] # g.members[j]["name"]}

\* ServiceDefinition.volumes: the keys of the mapping
VolumeNames(def) ==
    {def["name"] \o <<"-", Items(def, "volumes")[i].name>> :
        i \in 1..Len(Items(def, "volumes"))}

\* service_mapping[name] = description on a dict that keeps insertion
\* order: a new key goes last, an existing key keeps its place.
MappingSet(mapping, name, description) ==
    IF \E i \in 1..Len(mapping) : mapping[i].name = name
       THEN [i \in 1..Len(mapping) |->
                IF mapping[i].name = name
                   THEN [name |-> name, description |-> description]
                   ELSE mapping[i]]
       ELSE Append(mapping, [name |-> name, description |-> description])

\* The list handed to map(): the router's own service, then the members.
RenderList(group, args) ==
    <<[def |-> GenerateService(args), folder |-> <<>>]>>
        \o [i \in 1..Len(group.members) |->
               [def |-> group.members[i], folder |-> <<ServiceFolder>>]]

ComposeFileInit ==
    /\ cf_pc = "new"
    /\ cf_group \in ComposeGroups
    /\ cf_args = EmptyDict
    /\ cf_i = 0
    /\ cf_calls = <<>>
    /\ cf_mapping = <<>>
    /\ cf_volumes = {}
    /\ cf_file = <<>>
    /\ cf_error = None
    /\ CoreIdle
    /\ GroupIdle
    /\ ImageBuildIdle
    /\ ForgeIdle
    /\ RaceIdle
    /\ DisplayIdle

\* run up to the for-loop: the provider is looked up, the router is
\* constructed with the config-file injected, generate_service() is called
\* for the list map() will go through.
ComposeFileStart ==
    /\ cf_pc = "new"
    /\ IF cf_group.provider \notin PROVIDERS
          THEN /\ cf_pc' = "raised"
               /\ cf_error' = "ComposeServiceBuildError"
               /\ UNCHANGED <<cf_args, cf_i, cf_calls>>
          ELSE /\ cf_args' = ("config-file" :> "traefik.yml") @@ cf_group.args
               /\ cf_calls' = <<[call |-> "generate_service", name |-> <<>>]>>
               /\ cf_i' = 1
               /\ cf_pc' = "loop"
               /\ UNCHANGED cf_error
    /\ UNCHANGED <<cf_group, cf_mapping, cf_volumes, cf_file>>

\* One iteration of `for service in services`: map() calls
\* register_service on the next element of the list, the result is
\* converted and stored under its name.
ComposeFileIterate ==
    /\ cf_pc = "loop"
    /\ cf_i <= Len(RenderList(cf_group, cf_args))
    /\ LET item == RenderList(cf_group, cf_args)[cf_i]
           r == RegisterService(cf_args, item.def)
       IN  /\ cf_calls' = Append(cf_calls, [call |-> "register_service",
                                            name |-> item.def["name"]])
           /\ IF r.error # None
                 THEN /\ cf_pc' = "raised"
                      /\ cf_error' = r.error
                      /\ UNCHANGED <<cf_i, cf_mapping, cf_volumes>>
                 ELSE /\ cf_mapping' =
                            MappingSet(cf_mapping, r.def["name"],
                                       ConvertToComposeService(r.def, item.folder,
                                                               Network, DefaultTag))
                      /\ cf_volumes' = cf_volumes \cup VolumeNames(r.def)
                      /\ cf_i' = cf_i + 1
                      /\ UNCHANGED <<cf_pc, cf_error>>
    /\ UNCHANGED <<cf_group, cf_args, cf_file>>

\* The loop is over: the compose specification is written.
ComposeFileEmit ==
    /\ cf_pc = "loop"
    /\ cf_i > Len(RenderList(cf_group, cf_args))
    /\ cf_file' = <<[services |-> cf_mapping, networks |-> {Network},
                     volumes |-> cf_volumes]>>
    /\ cf_pc' = "emitted"
    /\ UNCHANGED <<cf_group, cf_args, cf_i, cf_calls, cf_mapping, cf_volumes, cf_error>>

ComposeFileNext ==
    /\ \/ ComposeFileStart
       \/ ComposeFileIterate
       \/ ComposeFileEmit
    /\ UNCHANGED <<pl_vars, tg_vars, mf_vars, bd_vars, sv_vars, tc_vars>>
    /\ UNCHANGED <<gp_vars, im_vars, fg_vars, rc_vars, ds_vars>>

SpecComposeFile == ComposeFileInit /\ [][ComposeFileNext]_vars

\* The calls C25 expects for the group: generate_service, then
\* register_service for the router's service and for every member in order.
C25_ExpectedCalls ==
    <<[call |-> "generate_service", name |-> <<>>],
      [call |-> "register_service", name |-> <<DEFAULT_SERVICE_NAME>>]>>
        \o [i \in 1..Len(cf_group.members) |->
               [call |-> "register_service", name |-> cf_group.members[i]["name"]]]

\* The names C25 expects in the services mapping, in order.
C25_ExpectedNames ==
    <<<<DEFAULT_SERVICE_NAME>>>>
        \o [i \in 1..Len(cf_group.members) |-> cf_group.members[i]["name"]]

\* C25: when the rendering of a group with a known routing provider has
\* ended, generate_service() was called once and register_service() once
\* per service, the router's own service first and then the members in
\* group order, and the services mapping emitted lists them in that order.
C25_CallsOncePerServiceInOrder ==
    (cf_pc \in {"emitted", "raised"} /\ cf_group.provider \in PROVIDERS) =>
        /\ cf_calls = C25_ExpectedCalls
        /\ cf_pc = "emitted"
        /\ [i \in 1..Len(cf_file[1].services) |-> cf_file[1].services[i].name]
              = C25_ExpectedNames

\* The names a service definition file may have (services.py:50).
C26_DefinitionNames == {"service.yml", "service.yaml"}

\* C26: once the Compose target has built a group from the unedited
\* sources, {output}/{group}/{service}/ holds every file and subdirectory
\* of the service's source folder except the definition file, be it
\* service.yml or service.yaml.
C26_OnlyNonDefinitionCopied ==
    (bd_pc # "off" /\ bd_inv.target = "compose" /\ bd_edits = 0) =>
        \A i \in 1..Len(bd_built) :
           \A k \in 1..Len(GroupDef(bd_built[i]).services) :
              LET src == <<bd_built[i], GroupDef(bd_built[i]).services[k]>> IN
              \A p \in DOMAIN SourceTree :
                 IsUnder(p, src) =>
                    LET rest == SubSeq(p, 3, Len(p)) IN
                    ((OutputPath("compose") \o src \o rest) \in DOMAIN fs)
                        <=> rest[1] \notin C26_DefinitionNames

\* ------------------------------------------------------------------------
\* Concurrent invocations of GenerateOrUpdateManifestFile.run on one build
\* folder (targets/compose.py:172-186)
\* ------------------------------------------------------------------------
MaxUpdaters == 3

Updaters == 1..MaxUpdaters

\* The group the p-th invocation builds.
UpdaterGroup(p) == <<"ga", "gb", "gc", "gd", "ge">>[p]

\* entry = DockerComposeEntry(compose_file.relative_to(build_folder), True)
UpdaterEntry(p) ==
    DockerComposeEntry(<<UpdaterGroup(p), "docker-compose.yml">>, TRUE).entry

UpdaterManifestPath == Append(OutputPath("compose"), MANIFEST_FILE)

\* An invocation that has loaded or created its manifest object and has not
\* written it back yet.
UnderWay(p) == rc_pc[p] \in {"loaded", "appended", "writing"}

\* manifest.json at the start: absent, or left by an earlier build.
RaceInit ==
    /\ rc_pc = [p \in Updaters |-> "idle"]
    /\ rc_local = [p \in Updaters |-> BuildManifest(<<>>, <<>>)]
    /\ \E earlier \in BOOLEAN :
          /\ rc_file = IF earlier
                          THEN [state |-> "file",
                                data |-> ManifestJson(BuildManifest(
                                    <<DockerComposeEntry(<<"g0", "docker-compose.yml">>,
                                                         TRUE).entry>>, <<>>))]
                          ELSE [state |-> "absent", data |-> EmptyDict]
          /\ rc_base = IF earlier THEN 1 ELSE 0
    /\ rc_interleaved = FALSE
    /\ rc_stale = FALSE
    /\ CoreIdle
    /\ GroupIdle
    /\ ImageBuildIdle
    /\ ForgeIdle
    /\ ComposeFileIdle
    /\ DisplayIdle

\* BuildManifest.load(manifest_json); FileNotFoundError takes the except
\* clause, where the manifest is created with the entry.  A file another
\* invocation has opened for writing and not written yet is empty, and
\* json.load fails on it as on a damaged file.
UpdaterLoad(p) ==
    /\ rc_pc[p] = "idle"
    /\ rc_interleaved' = (rc_interleaved \/ \E q \in Updaters \ {p} : UnderWay(q))
    /\ IF rc_file.state = "absent"
          THEN /\ rc_local' = [rc_local EXCEPT
                                 ![p] = BuildManifest(<<UpdaterEntry(p)>>, <<>>)]
               /\ rc_pc' = [rc_pc EXCEPT ![p] = "appended"]
       ELSE IF rc_file.state \in {"empty", "damaged"}
          THEN /\ rc_pc' = [rc_pc EXCEPT ![p] = "raised"]
               /\ UNCHANGED rc_local
       ELSE LET loaded == LoadManifest(rc_file.data, UpdaterManifestPath) IN
            IF loaded.error # None
               THEN /\ rc_pc' = [rc_pc EXCEPT ![p] = "raised"]
                    /\ UNCHANGED rc_local
               ELSE /\ rc_local' = [rc_local EXCEPT ![p] = loaded.manifest]
                    /\ rc_pc' = [rc_pc EXCEPT ![p] = "loaded"]
    /\ UNCHANGED <<rc_file, rc_base, rc_stale>>

\* manifest.append_entry(entry)
UpdaterAppend(p) ==
    /\ rc_pc[p] = "loaded"
    /\ rc_local' = [rc_local EXCEPT ![p] = AppendEntry(rc_local[p], UpdaterEntry(p))]
    /\ rc_pc' = [rc_pc EXCEPT ![p] = "appended"]
    /\ UNCHANGED <<rc_file, rc_base, rc_interleaved, rc_stale>>

\* manifest.save: path.open('wt') truncates the file.
UpdaterSaveOpen(p) ==
    /\ rc_pc[p] = "appended"
    /\ rc_file' = [state |-> "empty", data |-> EmptyDict]
    /\ rc_pc' = [rc_pc EXCEPT ![p] = "writing"]
    /\ UNCHANGED <<rc_local, rc_base, rc_interleaved, rc_stale>>

\* manifest.save: json.dump and close.  When another invocation has
\* written the file since this one opened it, the bytes of this dump
\* replace the first bytes of the file: the document of this invocation if
\* it is not the shorter one, a damaged file otherwise.
UpdaterSaveWrite(p) ==
    /\ rc_pc[p] = "writing"
    /\ \E damaged \in BOOLEAN :
          /\ damaged => rc_file.state # "empty"
          /\ rc_file' = IF damaged THEN [state |-> "damaged", data |-> EmptyDict]
                        ELSE [state |-> "file", data |-> ManifestJson(rc_local[p])]
    /\ rc_stale' = (rc_stale \/ \E q \in Updaters \ {p} : UnderWay(q))
    /\ rc_local' = [rc_local EXCEPT ![p].source = UpdaterManifestPath]
    /\ rc_pc' = [rc_pc EXCEPT ![p] = "saved"]
    /\ UNCHANGED <<rc_base, rc_interleaved>>

RaceNext ==
    /\ \E p \in Updaters :
          \/ UpdaterLoad(p)
          \/ UpdaterAppend(p)
          \/ UpdaterSaveOpen(p)
          \/ UpdaterSaveWrite(p)
    /\ UNCHANGED <<pl_vars, tg_vars, mf_vars, bd_vars, sv_vars, tc_vars>>
    /\ UNCHANGED <<gp_vars, im_vars, fg_vars, cf_vars, ds_vars>>

SpecRace == RaceInit /\ [][RaceNext]_vars

\* The successful updates so far, and the entries of manifest.json beyond
\* those it started with.
C27_Saved == Cardinality({p \in Updaters : rc_pc[p] = "saved"})
C27_Entries == Len(rc_file.data["contents"]) - rc_base

\* C27: while the invocations have run one after the other, manifest.json
\* has one more entry per update made; once every invocation that started
\* has saved and one of them saved while another held a manifest loaded
\* before that save, manifest.json has fewer entries than updates were
\* made.
C27_LostUpdateOnlyWhenInterleaved ==
    rc_pc # <<>> =>
        /\ (~rc_interleaved /\ \A p \in Updaters : ~UnderWay(p)) =>
              /\ rc_file.state \in {"absent", "file"}
              /\ rc_file.state = "absent" => C27_Saved = 0
              /\ rc_file.state = "file" => C27_Entries = C27_Saved
        /\ (rc_stale /\ rc_file.state = "file"
              /\ \A p \in Updaters : rc_pc[p] \in {"idle", "saved"}) =>
              C27_Entries < C27_Saved

\* Both invocations loaded before either saved, both have saved, and
\* manifest.json holds the entry of one of them only.
C27_Witness ==
    /\ rc_pc[1] = "saved"
    /\ rc_pc[2] = "saved"
    /\ C27_Saved = 2
    /\ rc_stale
    /\ rc_file.state = "file"
    /\ C27_Entries = 1
    /\ Len(rc_local[1].entries) = Len(rc_local[2].entries)

\* The routes a config has accumulated.
C28_RoutesOf(cfg) == IF Len(cfg.routes) = 0 THEN <<>> ELSE cfg.routes[1]

\* C28: the routes of a config never hold the same route twice, and an
\* add_route call that raises leaves the routes, the port, the service
\* override and the TLS flag as they were.
C28_DuplicateRouteRejected ==
    /\ [](\A i, j \in 1..Len(C28_RoutesOf(tc_cfg)) :
             i # j => C28_RoutesOf(tc_cfg)[i] # C28_RoutesOf(tc_cfg)[j])
    /\ [][(tc_pc = "config" /\ tc_pc' = "raised") =>
             /\ tc_cfg' = tc_cfg
             /\ C28_RoutesOf(tc_cfg) # <<>>]_vars

\* add_route has raised on a config that has a route, a port, a service
\* override and TLS enabled.
C28_Witness ==
    /\ tc_pc = "raised"
    /\ Len(C28_RoutesOf(tc_cfg)) = 1
    /\ tc_cfg.port = <<8080>>
    /\ tc_cfg.service # <<>>
    /\ tc_cfg.enable_tls

\* ------------------------------------------------------------------------
\* MultiActivityDisplay and ProcessDisplay (console.py)
\* ------------------------------------------------------------------------
MaxDisplayStages == 2
MaxPrints == 2

\* ProcessDisplay.__init__; `completed` is what stop() reported to the
\* progress bar, <<>> before that.
NewProcessDisplay ==
    [started |-> FALSE, had_error |-> FALSE, rows |-> 0, errors |-> 0,
     completed |-> <<>>]

\* ProcessDisplay.start
ProcessStart(display) ==
    IF display.started THEN display ELSE [display EXCEPT !.started = TRUE]

\* ProcessDisplay.stop
ProcessStop(display) ==
    IF ~display.started THEN display
    ELSE [display EXCEPT !.started = FALSE, !.completed = <<~display.had_error>>]

PrintOutputAlways(display) ==
    [display |-> [display EXCEPT !.rows = @ + 1], logged |-> 1]

\* ProcessDisplay.print_output: the display it leaves and the number of
\* messages it sent to the logger.
PrintOutput(display) ==
    IF ~display.started THEN [display |-> display, logged |-> 0]
    ELSE [display |-> [display EXCEPT !.rows = @ + 1], logged |-> 1]

\* ProcessDisplay.print_error
PrintError(display) ==
    IF ~display.started THEN [display |-> display, logged |-> 0]
    ELSE [display |-> [display EXCEPT !.errors = @ + 1, !.had_error = TRUE],
          logged |-> 1]

\* The fields of an ActivityDisplay the methods below work on.
Activity == [displays |-> ds_displays, display |-> ds_display, surface |-> ds_surface]

\* ActivityDisplay.start: the surface is started and updated; the display
\* in use is returned, or a new one is created and started.
ActivityStart(a) ==
    IF a.display # 0 THEN [a EXCEPT !.surface = TRUE]
    ELSE [displays |-> Append(a.displays, ProcessStart(NewProcessDisplay)),
          display |-> Len(a.displays) + 1,
          surface |-> TRUE]

\* ActivityDisplay.stop(stop_surface=..., clear_surface=True): the display
\* in use is stopped and dropped, the surface is redrawn empty, and stopped
\* when asked.
ActivityStop(a, stop_surface) ==
    [displays |-> IF a.display # 0
                     THEN [a.displays EXCEPT ![a.display] = ProcessStop(@)]
                     ELSE a.displays,
     display |-> 0,
     surface |-> IF stop_surface THEN FALSE ELSE a.surface]

\* MultiActivityDisplay(stages, logger)
DisplayInit ==
    /\ ds_pc = "new"
    /\ ds_n \in 0..MaxDisplayStages
    /\ ds_i = 0
    /\ ds_displays = <<>>
    /\ ds_display = 0
    /\ ds_surface = FALSE
    /\ ds_total = 0
    /\ ds_logged = 0
    /\ ds_hist = <<>>
    /\ CoreIdle
    /\ GroupIdle
    /\ ImageBuildIdle
    /\ ForgeIdle
    /\ ComposeFileIdle
    /\ RaceIdle

\* __iter__ is entered by the first next(): the total task is added.
DisplayIter ==
    /\ ds_pc = "new"
    /\ ds_pc' = "between"
    /\ UNCHANGED <<ds_n, ds_i, ds_displays, ds_display, ds_surface, ds_total, ds_logged,
                   ds_hist>>

\* The for-loop takes the next stage: `yield stage, self.start(fields)`.
DisplayStart ==
    /\ ds_pc = "between"
    /\ ds_i < ds_n
    /\ LET a == ActivityStart(Activity) IN
          /\ ds_displays' = a.displays
          /\ ds_display' = a.display
          /\ ds_surface' = a.surface
          /\ ds_hist' = IF Len(a.displays) > Len(ds_displays)
                           THEN Append(ds_hist, [calls |-> 0, late |-> 0])
                           ELSE ds_hist
    /\ ds_i' = ds_i + 1
    /\ ds_pc' = "yielded"
    /\ UNCHANGED <<ds_n, ds_total, ds_logged>>

\* The consumer asks for the next item: the generator resumes after the
\* yield, advances the total progress and calls stop(stop_surface=False).
DisplayResume ==
    /\ ds_pc = "yielded"
    /\ ds_total' = ds_total + 1
    /\ LET a == ActivityStop(Activity, FALSE) IN
          /\ ds_displays' = a.displays
          /\ ds_display' = a.display
          /\ ds_surface' = a.surface
    /\ ds_pc' = "between"
    /\ UNCHANGED <<ds_n, ds_i, ds_logged, ds_hist>>

\* The for-loop is over: stop(stop_surface=True), and the generator ends.
DisplayFinish ==
    /\ ds_pc = "between"
    /\ ds_i = ds_n
    /\ LET a == ActivityStop(Activity, TRUE) IN
          /\ ds_displays' = a.displays
          /\ ds_display' = a.display
          /\ ds_surface' = a.surface
    /\ ds_pc' = "done"
    /\ UNCHANGED <<ds_n, ds_i, ds_total, ds_logged, ds_hist>>

\* The consumer leaves its loop early: the generator is never resumed.
DisplayBreak ==
    /\ ds_pc = "yielded"
    /\ ds_pc' = "abandoned"
    /\ UNCHANGED <<ds_n, ds_i, ds_displays, ds_display, ds_surface, ds_total, ds_logged,
                   ds_hist>>

\* The consumer prints on a display it was handed, the current one or one
\* it kept from an earlier stage.
DisplayPrint(d, r) ==
    /\ ds_pc \in {"yielded", "done", "abandoned"}
    /\ ds_hist[d].calls < MaxPrints
    /\ ds_displays' = [ds_displays EXCEPT ![d] = r.display]
    /\ ds_logged' = ds_logged + r.logged
    /\ ds_hist' = [ds_hist EXCEPT ![d] =
                      [calls |-> @.calls + 1,
                       late |-> @.late + (IF ds_displays[d].started THEN 0 ELSE 1)]]
    /\ UNCHANGED <<ds_pc, ds_n, ds_i, ds_display, ds_surface, ds_total>>

DisplayPrintOutput ==
    \E d \in 1..Len(ds_displays) : DisplayPrint(d, PrintOutput(ds_displays[d]))

DisplayPrintError ==
    \E d \in 1..Len(ds_displays) : DisplayPrint(d, PrintError(ds_displays[d]))

DisplayNext ==
    /\ \/ DisplayIter
       \/ DisplayStart
       \/ DisplayResume
       \/ DisplayFinish
       \/ DisplayBreak
       \/ DisplayPrintOutput
       \/ DisplayPrintError
    /\ UNCHANGED <<pl_vars, tg_vars, mf_vars, bd_vars, sv_vars, tc_vars>>
    /\ UNCHANGED <<gp_vars, im_vars, fg_vars, cf_vars, rc_vars>>

SpecDisplay == DisplayInit /\ [][DisplayNext]_vars

RECURSIVE C29_Accepted(_)
\* The print calls the displays have acted on.
C29_Accepted(displays) ==
    IF Len(displays) = 0 THEN 0
    ELSE Head(displays).rows + Head(displays).errors + C29_Accepted(Tail(displays))

\* C29: a display that is started is the one handed out last and the one
\* the activity holds, so at most one is active and the display of a stage
\* is stopped before the next is started; the print calls a display acted
\* on are the ones it received while started, the others left no trace;
\* when the iteration has run to its end every stage was handed a display,
\* no display is active and the surface is stopped.
C29_OneDisplayAtATime ==
    ds_pc # "off" =>
        /\ \A d \in 1..Len(ds_displays) :
              /\ ds_displays[d].started =>
                    /\ d = Len(ds_displays)
                    /\ ds_display = d
                    /\ ds_pc \in {"yielded", "abandoned"}
              /\ ds_displays[d].rows + ds_displays[d].errors
                    = ds_hist[d].calls - ds_hist[d].late
        /\ ds_logged = C29_Accepted(ds_displays)
        /\ (ds_display # 0) = (\E d \in 1..Len(ds_displays) : ds_displays[d].started)
        /\ ds_pc = "done" =>
              /\ ds_display = 0
              /\ ~ds_surface
              /\ Len(ds_displays) = ds_n
              /\ ds_total = ds_n

\* Two stages were iterated to the end; the display of the first stage
\* printed while started and was printed on again after it was stopped.
C29_Witness ==
    /\ ds_pc = "done"
    /\ ds_n = 2
    /\ ds_displays[1].rows = 1
    /\ ds_hist[1].late = 1
    /\ ds_displays[2].completed # <<>>

\* C30: whenever the Docker build API has been called for a service of the
\* group, also after a build has failed, manifest.json of the build folder
\* lists every service of the group with its image name, in group order.
C30_ManifestBeforeBuild ==
    (im_pc # "off" /\ im_calls # <<>>) =>
        /\ HasManifest(im_fs, "image")
        /\ Len(ManifestData(im_fs, "image")) = Len(ImageServices)
        /\ \A k \in 1..Len(ImageServices) :
              /\ ManifestData(im_fs, "image")[k].service = ImageServices[k]
              /\ ManifestData(im_fs, "image")[k].image
                    = CreateImageName(None, im_inv.version, ImageServices[k])

\* The build of the first of two services has failed: the manifest names
\* the image of the second service, which was never built.
C30_Witness ==
    /\ im_pc = "raised"
    /\ im_error = "ServiceImageBuildError"
    /\ im_calls = <<"s1">>
    /\ HasManifest(im_fs, "image")
    /\ ManifestData(im_fs, "image")[2].service = "s2"
=============================================================================
